---- MODULE Spec2Model ----
(***************************************************************************)
(* ChaseRP clip pipeline: the bulk-scan handler (api/bulk-scan.js), the    *)
(* periodic collector (api/collect.js) and the collect-clips edge function *)
(* (getClipsTwitch.ts), with the Twitch upstream and the Supabase store as *)
(* nondeterministic collaborators.                                         *)
(*                                                                         *)
(* Strings are sequences of one-character strings, so that toLowerCase and *)
(* String.prototype.includes are computed, not assumed.                    *)
(***************************************************************************)
EXTENDS Integers, Sequences, FiniteSets, TLC

VARIABLES
    val,              \* the validator applied to one pair of titles
    fetch,            \* the running fetchBroadcasterClips / fetchClipsForStreamer call
    upstream,         \* what the Twitch API can answer: [clips, cursors]
    env,              \* process.env and the caller's fixed request parameters
    now,              \* Date.now(), in units of one minute
    cache,            \* accessToken / tokenExpiry of each handler module
    streamers,        \* table streamers
    clips,            \* table clips
    twitch_clips,     \* table twitch_clips
    collection_logs,  \* table collection_logs
    run,              \* the handler invocation in progress
    scan,             \* the caller of bulk-scan: next offset to ask for, coverage so far
    peer,             \* a second invocation persisting at the same time as run
    imp,              \* the invocation of import-streamers
    vrun,             \* the invocation of the validate-clips edge function
    api,              \* the last request to GET /api/clips and its answer
    callers,          \* concurrent getTwitchToken calls of one process
    ids               \* the streamer-ids endpoint: its module cache and last answer

hvars == <<env, now, cache, streamers, clips, twitch_clips, collection_logs, run, scan,
          peer, imp, vrun, api, callers, ids>>

(***************************************************************************)
(* Bounds of the model (not program constants).                            *)
(***************************************************************************)
\* titles given to the validator are concatenations of at most MaxParts fragments
MaxParts == 2
\* a single fetchBroadcasterClips call is answered 429 at most Max429 times
Max429 == 2
\* largest max_pages value a fetchBroadcasterClips call is started with
MaxPagesArg == 3
\* page size of the clip listing ('first' = 100 in the source), scaled down
FirstPerPage == 2

\* rows of table streamers
MaxStreamers == 3
\* handler invocations in one behaviour
MaxRuns == 3
\* .limit(100) of the collector's streamer query, scaled down
CollectLimit == 2
\* maxPages = 40 of fetchClipsForStreamer, scaled down
EdgeMaxPages == 2
\* size of an upsert batch and of a metadata lookup batch (100 in the source),
\* scaled down
BatchSize == 2

(***************************************************************************)
(* JavaScript values                                                       *)
(***************************************************************************)
\* null / undefined: a one-element sequence that is no string of the model
Null == <<"null">>

OrEmpty(s) == IF s = Null \/ s = <<>> THEN <<>> ELSE s

UpperChars == <<"A", "B", "C", "D", "E", "F", "G", "H", "I", "J", "K", "L", "M",
                "N", "O", "P", "Q", "R", "S", "T", "U", "V", "W", "X", "Y", "Z">>
LowerChars == <<"a", "b", "c", "d", "e", "f", "g", "h", "i", "j", "k", "l", "m",
                "n", "o", "p", "q", "r", "s", "t", "u", "v", "w", "x", "y", "z">>

LowerChar(c) ==
    IF \E i \in 1..26 : UpperChars[i] = c
    THEN LowerChars[CHOOSE i \in 1..26 : UpperChars[i] = c]
    ELSE c

ToLowerCase(s) == [i \in 1..Len(s) |-> LowerChar(s[i])]

\* String.prototype.includes
Includes(s, t) ==
    \E i \in 0..(Len(s) - Len(t)) : SubSeq(s, i + 1, i + Len(t)) = t

(***************************************************************************)
(* Content validator                                                       *)
(***************************************************************************)
GTA_V_GAME_ID == "32982"

CHASERP_TERMS ==
    << <<"c", "h", "a", "s", "e", "r", "p">>,
       <<"c", "h", "a", "s", "e", " ", "r", "p">>,
       <<"c", "h", "a", "s", "e", " ", "r", "o", "l", "e", "p", "l", "a", "y">>,
       <<"c", "h", "a", "s", "e", "r", "p", "g">> >>

\* `${clipTitle || ''} ${vodTitle || ''}`.toLowerCase()
Combined(clipTitle, vodTitle) ==
    ToLowerCase(OrEmpty(clipTitle) \o <<" ">> \o OrEmpty(vodTitle))

isChaseRPContent(clipTitle, vodTitle) ==
    \E k \in 1..Len(CHASERP_TERMS) :
        Includes(Combined(clipTitle, vodTitle), CHASERP_TERMS[k])

(***************************************************************************)
(* Titles the validator is applied to                                      *)
(***************************************************************************)
Fragments ==
    { <<"c", "h", "a", "s", "e">>, <<"C", "h", "a", "s", "e">>,
      <<"r", "p">>, <<"R", "P">>, <<" ">>, <<"g">>, <<"-">>,
      <<"r", "o", "l", "e", "p", "l", "a", "y">> }

RECURSIVE Concats(_)
Concats(n) ==
    IF n = 0 THEN { <<>> }
    ELSE LET shorter == Concats(n - 1)
         IN  shorter \cup { s \o f : s \in shorter, f \in Fragments }

TitleFriday ==
    <<"F", "r", "i", "d", "a", "y", " ", "C", "h", "a", "s", "e", "R", "P",
      " ", "s", "t", "r", "e", "a", "m">>
TitleRandom ==
    <<"r", "a", "n", "d", "o", "m", " ", "g", "a", "m", "e", "p", "l", "a", "y">>
TitleVodChase ==
    <<"G", "T", "A", " ", "C", "h", "a", "s", "e", " ", "R", "P">>

\* the titles of the model: the concatenations of fragments, two plain
\* titles, and the spellings 'Chase-RP', 'chase role play' and '#ChaseRP'
Titles ==
    Concats(MaxParts)
    \cup {TitleFriday, TitleRandom,
          <<"C", "h", "a", "s", "e", "-", "R", "P", " ", "h", "e", "i", "s", "t">>,
          <<"c", "h", "a", "s", "e", " ", "r", "o", "l", "e", " ", "p", "l", "a", "y">>,
          <<"c", "o", "p", "s", " ", "#", "C", "h", "a", "s", "e", "R", "P">>}

(***************************************************************************)
(* The validator as a one-step machine over every pair of titles           *)
(***************************************************************************)
ValIdle == [pc |-> "idle", clipTitle |-> <<>>, vodTitle |-> <<>>, result |-> FALSE]

ValInit ==
    val \in [pc : {"ready"}, clipTitle : Titles \cup {Null},
             vodTitle : Titles \cup {Null}, result : {FALSE}]

ApplyValidator ==
    /\ val.pc = "ready"
    /\ val' = [val EXCEPT !.pc = "done",
                          !.result = isChaseRPContent(val.clipTitle, val.vodTitle)]
    /\ UNCHANGED <<fetch, upstream, hvars>>

(***************************************************************************)
(* Clips the upstream can return.  Everything but the view count is a      *)
(* function of the clip id; the view count differs between two fetches of  *)
(* clip 1.                                                                 *)
(***************************************************************************)
ClipIds == 1..5
\* clip 4 is of another game
GameOf(id) == IF id = 4 THEN "509658" ELSE GTA_V_GAME_ID
TitleOf(id) == IF id \in {1, 4, 5} THEN TitleFriday ELSE TitleRandom
\* video_id of a clip; NoVideo is the empty video_id of a clip without VOD
NoVideo == 0
VideoIds == {7}
VodTitleOf(v) == TitleVodChase
ProfileImage == <<"i", "m", "g">>
BroadcasterOf(id) == IF id = 4 THEN 2 ELSE 1

MkClip(id, views) ==
    [id |-> id, view_count |-> views, game_id |-> GameOf(id),
     title |-> TitleOf(id), video_id |-> IF id = 2 THEN 7 ELSE NoVideo,
     broadcaster_id |-> BroadcasterOf(id)]

ClipUniverse ==
    UNION { { MkClip(id, v) : v \in IF id = 1 THEN {1, 2} ELSE {1} } : id \in ClipIds }

RECURSIVE SeqsUpTo(_, _)
SeqsUpTo(S, n) ==
    IF n = 0 THEN { <<>> }
    ELSE LET shorter == SeqsUpTo(S, n - 1)
         IN  shorter \cup { Append(s, x) : s \in shorter, x \in S }

\* fetch() rejects (network error, timeout) or response.json() rejects
NETWORK_ERROR == 0

\* answers of GET helix/clips when the upstream holds the clips of set U: a
\* page (data possibly absent), a 429, another non-2xx status, or no answer
ClipResponses(U) ==
    [status : {200}, hasData : {TRUE}, items : SeqsUpTo(U.clips, FirstPerPage),
     cursor : U.cursors \cup {Null}]
    \cup [status : {200}, hasData : {FALSE}, items : {<<>>}, cursor : U.cursors \cup {Null}]
    \cup [status : {429, 500, NETWORK_ERROR}, hasData : {FALSE}, items : {<<>>},
          cursor : {Null}]

\* a filter that keeps the clips of every game
IsGTA_AnyGame(clip) == TRUE

\* clip.game_id === GTA_V_GAME_ID
IsGTA(clip) == clip.game_id = GTA_V_GAME_ID

(***************************************************************************)
(* fetchBroadcasterClips (bulk-scan): one loop iteration per step.         *)
(* lastSent is the 'after' parameter of the latest request, lastStatus the *)
(* status of its answer; requests, n429 and okPages count the requests,    *)
(* the 429 answers and the 2xx answers of the call, lastItems the items of  *)
(* the latest answer before the game filter.                               *)
(***************************************************************************)
FetchIdle ==
    [pc |-> "idle", kind |-> "bulk", maxPages |-> 0, page |-> 0, cursor |-> Null, clips |-> <<>>,
     lastSent |-> Null, lastStatus |-> -1, lastItems |-> <<>>, requests |-> 0,
     n429 |-> 0, okPages |-> 0]

\* const clips = []; let cursor = null; page = 0
FetchEntry(kind, maxPages) ==
    [FetchIdle EXCEPT !.pc = "loop", !.kind = kind, !.maxPages = maxPages]

\* a request that never carries the cursor
Asked_WithoutCursor(f, r) ==
    [f EXCEPT !.lastSent = Null, !.lastStatus = r.status,
              !.lastItems = r.items, !.requests = @ + 1,
              !.n429 = IF r.status = 429 THEN @ + 1 ELSE @,
              !.okPages = IF r.status = 200 THEN @ + 1 ELSE @]

\* the request of one iteration and the status of its answer
Asked(f, r) ==
    [f EXCEPT !.lastSent = f.cursor, !.lastStatus = r.status,
              !.lastItems = r.items, !.requests = @ + 1,
              !.n429 = IF r.status = 429 THEN @ + 1 ELSE @,
              !.okPages = IF r.status = 200 THEN @ + 1 ELSE @]

\* a 2xx answer handled without counting the page against the budget
GotPage_NoPageCount(f, r) ==
    LET got == [f EXCEPT !.clips = @ \o SelectSeq(r.items, IsGTA),
                         !.cursor = r.cursor]
    IN  IF r.cursor = Null THEN [got EXCEPT !.pc = "returned"]
        ELSE IF ~r.hasData THEN [got EXCEPT !.pc = "threw"]
        ELSE IF Len(r.items) < FirstPerPage THEN [got EXCEPT !.pc = "returned"]
        ELSE got

\* a 2xx answer: keep the GTA V clips, take the cursor, decide whether to go on
GotPage(f, r) ==
    LET got == [f EXCEPT !.clips = @ \o SelectSeq(r.items, IsGTA),
                         !.cursor = r.cursor]
    IN  IF r.cursor = Null THEN [got EXCEPT !.pc = "returned"]
        ELSE IF ~r.hasData THEN [got EXCEPT !.pc = "threw"]
        ELSE IF Len(r.items) < FirstPerPage THEN [got EXCEPT !.pc = "returned"]
        ELSE [got EXCEPT !.page = @ + 1]

\* the loop body of a fetch whose 429 branch lacks the 'page--'
FetchBody_429ConsumesPage(f, r) ==
    IF r.status = NETWORK_ERROR THEN [Asked(f, r) EXCEPT !.pc = "threw"]
    ELSE IF r.status = 429 THEN [Asked(f, r) EXCEPT !.page = @ + 1]
    ELSE IF r.status # 200 THEN [Asked(f, r) EXCEPT !.pc = "returned"]
    ELSE GotPage(Asked(f, r), r)

\* the loop body, with the page++ that follows it (also after 'continue')
FetchBody(f, r) ==
    IF r.status = NETWORK_ERROR THEN [Asked(f, r) EXCEPT !.pc = "threw"]
    ELSE IF r.status = 429 THEN Asked(f, r)
    ELSE IF r.status # 200 THEN [Asked(f, r) EXCEPT !.pc = "returned"]
    ELSE GotPage(Asked(f, r), r)

\* a loop that discards the accumulated clips when a page request fails
CollectFetchBody_FailureDropsClips(f, r) ==
    IF r.status = NETWORK_ERROR THEN [Asked(f, r) EXCEPT !.pc = "threw"]
    ELSE IF r.status # 200 THEN [Asked(f, r) EXCEPT !.pc = "returned", !.clips = <<>>]
    ELSE GotPage(Asked(f, r), r)

\* collect: the same loop without a 429 branch
CollectFetchBody(f, r) ==
    IF r.status = NETWORK_ERROR THEN [Asked(f, r) EXCEPT !.pc = "threw"]
    ELSE IF r.status # 200 THEN [Asked(f, r) EXCEPT !.pc = "returned"]
    ELSE GotPage(Asked(f, r), r)

\* fetchClipsForStreamer (edge function): every clip is kept, any failure
\* breaks the loop, pageCount counts the pages that had a cursor and items
EdgeFetchBody(f, r) ==
    IF r.status # 200 THEN [Asked(f, r) EXCEPT !.pc = "returned"]
    ELSE LET got == [Asked(f, r) EXCEPT !.clips = @ \o r.items, !.cursor = r.cursor]
         IN  IF r.cursor = Null \/ Len(r.items) = 0 THEN [got EXCEPT !.pc = "returned"]
             ELSE [got EXCEPT !.page = @ + 1]

FetchStep(f, r) ==
    CASE f.kind = "bulk" -> FetchBody(f, r)
      [] f.kind = "collect" -> CollectFetchBody(f, r)
      [] f.kind = "edge" -> EdgeFetchBody(f, r)

\* one request of the loop, answered by r
FetchPage ==
    /\ fetch.pc = "loop"
    /\ fetch.page < fetch.maxPages
    /\ \E r \in ClipResponses(upstream) :
          /\ r.status = 429 => fetch.n429 < Max429
          /\ fetch' = FetchStep(fetch, r)
    /\ UNCHANGED <<val, upstream, hvars>>

\* the loop condition page < maxPages fails: return clips
FetchLoopExit ==
    /\ fetch.pc = "loop"
    /\ fetch.page >= fetch.maxPages
    /\ fetch' = [fetch EXCEPT !.pc = "returned"]
    /\ UNCHANGED <<val, upstream, hvars>>

(***************************************************************************)
(* fetchBroadcasterClips called on its own, with every page budget         *)
(***************************************************************************)
FetchCall ==
    /\ env.handler = "none"
    /\ fetch.pc = "idle"
    /\ \E m \in 0..MaxPagesArg : fetch' = FetchEntry("bulk", m)
    /\ UNCHANGED <<val, upstream, hvars>>

FetchResult ==
    /\ env.handler = "none"
    /\ fetch.pc \in {"returned", "threw"}
    /\ fetch' = FetchIdle
    /\ UNCHANGED <<val, upstream, hvars>>


(***************************************************************************)
(* The store (Supabase)                                                    *)
(***************************************************************************)
StreamerIds == 1..MaxStreamers

RECURSIVE SortedSeq(_)
\* the elements of a set of integers in ascending order
SortedSeq(S) ==
    IF S = {} THEN <<>>
    ELSE LET m == CHOOSE x \in S : \A y \in S : x <= y
         IN  <<m>> \o SortedSeq(S \ {m})

\* .eq('is_active', true).order('twitch_id', { ascending: true })
ActiveById(tbl) == SortedSeq({ id \in DOMAIN tbl : tbl[id].is_active })

Min(a, b) == IF a < b THEN a ELSE b

\* .range(from, to) on an ordered result
Range(rows, from, to) == SubSeq(rows, from + 1, Min(to + 1, Len(rows)))

SameKey(r, q, key) == \A k \in key : r[k] = q[k]

\* a plain INSERT of one row, with no conflict target
UpsertRow_NoConflictTarget(tbl, rec, key, ignoreDuplicates) == tbl \cup {rec}

\* INSERT ... ON CONFLICT (key) DO UPDATE / DO NOTHING of one row
UpsertRow(tbl, rec, key, ignoreDuplicates) ==
    IF \E r \in tbl : SameKey(r, rec, key)
    THEN IF ignoreDuplicates THEN tbl
         ELSE { r \in tbl : ~SameKey(r, rec, key) } \cup {rec}
    ELSE tbl \cup {rec}

RECURSIVE Upsert(_, _, _, _)
\* .upsert(batch, { onConflict: key, ignoreDuplicates })
Upsert(tbl, batch, key, ignoreDuplicates) ==
    IF batch = <<>> THEN tbl
    ELSE Upsert(UpsertRow(tbl, Head(batch), key, ignoreDuplicates), Tail(batch),
                key, ignoreDuplicates)

\* the store refuses a DO UPDATE batch that names the same key twice
StoreAccepts(batch, key, ignoreDuplicates) ==
    \/ ignoreDuplicates
    \/ ~\E i, j \in 1..Len(batch) : i # j /\ SameKey(batch[i], batch[j], key)

(***************************************************************************)
(* Token cache: getTwitchToken of bulk-scan and collect                    *)
(***************************************************************************)
\* the 60000 ms subtracted from the expiry, in minutes
TokenMargin == 1
Token == <<"t">>

\* accessToken and tokenExpiry are the module variables; expiresAt records the
\* time at which the cached credential ends by its declared lifetime
EmptyCache ==
    [accessToken |-> Null, tokenExpiry |-> 0, expiryNaN |-> FALSE, expiresAt |-> 0]

\* accessToken && Date.now() < tokenExpiry
CacheFresh(c, t) == c.accessToken # Null /\ ~c.expiryNaN /\ t < c.tokenExpiry

\* answers of POST oauth2/token: a token with a lifetime, a non-2xx answer
\* with a JSON error body, or no answer / no JSON; without configured
\* credentials the endpoint cannot answer with a token
TokenResponses(credentials, lifetimes) ==
    (IF credentials THEN [kind : {"ok"}, expires_in : lifetimes] ELSE {})
    \cup [kind : {"http_error", "network_error"}, expires_in : {0}]

\* the cache update without the early refresh
CacheAfter_NoMargin(resp, t) ==
    IF resp.kind = "ok"
    THEN [accessToken |-> Token, tokenExpiry |-> t + resp.expires_in,
          expiryNaN |-> FALSE, expiresAt |-> t + resp.expires_in]
    ELSE [accessToken |-> Null, tokenExpiry |-> 0, expiryNaN |-> TRUE, expiresAt |-> 0]

\* accessToken = data.access_token; tokenExpiry = Date.now() + expires_in*1000 - 60000
CacheAfter(resp, t) ==
    IF resp.kind = "ok"
    THEN [accessToken |-> Token, tokenExpiry |-> t + resp.expires_in - TokenMargin,
          expiryNaN |-> FALSE, expiresAt |-> t + resp.expires_in]
    ELSE [accessToken |-> Null, tokenExpiry |-> 0, expiryNaN |-> TRUE, expiresAt |-> 0]

(***************************************************************************)
(* getTwitchToken under concurrent callers of one process: a call is       *)
(* suspended at `await fetch(...)` and at `await response.json()`; the two *)
(* assignments and the return that follow the last await run without       *)
(* interruption.                                                           *)
(***************************************************************************)
MaxCallers == 3
MaxClock == 3
CallerIds == 1..MaxCallers

\* got is what the call returned; exchange, life and at record the answer
\* of the call's own exchange, its expires_in and the time it was read
NoCallers ==
    [c \in CallerIds |->
        [pc |-> "idle", got |-> Null, exchange |-> "none", life |-> 0, at |-> 0]]

\* the module-level cache the callers of this process share
CallerCache == cache[env.handler]

\* if (accessToken && Date.now() < tokenExpiry) return accessToken;
\* otherwise the request of the exchange leaves and the call is suspended
TokenCall(c) ==
    /\ callers[c].pc = "idle"
    /\ callers' = [callers EXCEPT ![c] =
          IF CacheFresh(CallerCache, now)
          THEN [@ EXCEPT !.pc = "returned", !.got = CallerCache.accessToken,
                         !.at = now]
          ELSE [@ EXCEPT !.pc = "exchanging"]]
    /\ UNCHANGED <<ids, api, vrun, imp, peer, val, fetch, upstream, env, now, cache,
                   streamers, clips, twitch_clips, collection_logs, run, scan>>

\* the answer of the exchange is read: accessToken and tokenExpiry are
\* assigned and accessToken is returned, whatever the status of the answer;
\* an exchange without an answer throws
TokenAnswer(c) ==
    /\ callers[c].pc = "exchanging"
    /\ \E resp \in TokenResponses(env.credentials, upstream.lifetimes) :
          IF resp.kind = "network_error"
          THEN /\ callers' = [callers EXCEPT ![c] =
                      [@ EXCEPT !.pc = "threw", !.exchange = resp.kind, !.at = now]]
               /\ UNCHANGED cache
          ELSE /\ cache' = [cache EXCEPT ![env.handler] = CacheAfter(resp, now)]
               /\ callers' = [callers EXCEPT ![c] =
                      [@ EXCEPT !.pc = "returned",
                                !.got = CacheAfter(resp, now).accessToken,
                                !.exchange = resp.kind,
                                !.life = resp.expires_in, !.at = now]]
    /\ UNCHANGED <<ids, api, vrun, imp, peer, val, fetch, upstream, env, now,
                   streamers, clips, twitch_clips, collection_logs, run, scan>>

\* Date.now() between two steps of the callers
ClockTick ==
    /\ now < MaxClock
    /\ now' = now + 1
    /\ UNCHANGED <<ids, callers, api, vrun, imp, peer, val, fetch, upstream, env, cache,
                   streamers, clips, twitch_clips, collection_logs, run, scan>>

(***************************************************************************)
(* The streamer-ids endpoint (api/streamer-ids.js): cachedStreamerIds and  *)
(* cacheTimestamp of the module, and the answer of the last request.       *)
(***************************************************************************)
\* 60 * 60 * 1000 ms
CACHE_DURATION == 60
MaxIdsClock == 125

\* streamer_ids.json as the ids of its entries, 0 for an entry without id
IdFiles == { <<>>, <<1>>, <<0, 2>> }

\* loaded is cachedStreamerIds !== null and cacheTimestamp = 0 is null;
\* filledAt records the time of the last load of the file
IdsIdle ==
    [loaded |-> FALSE, cachedStreamerIds |-> <<>>, cacheTimestamp |-> 0,
     filledAt |-> 0, status |-> 0, success |-> FALSE, cached |-> FALSE,
     data |-> <<>>, count |-> 0]

\* streamers.map(s => s.id).filter(Boolean)
ExtractIds(file) == SelectSeq(file, LAMBDA id : id # 0)

\* the time that cacheTimestamp takes at a reload
StampOf_Earlier(t) == t - 1
StampOf(t) == t

\* module.exports = async function handler(req, res); readable is whether
\* readFileSync, JSON.parse and the map over the entries all succeed
StreamerIdsHandler ==
    /\ IF /\ ids.loaded
          /\ ids.cacheTimestamp # 0
          /\ now - ids.cacheTimestamp < CACHE_DURATION
       THEN ids' = [ids EXCEPT !.status = 200, !.success = TRUE, !.cached = TRUE,
                               !.data = ids.cachedStreamerIds,
                               !.count = Len(ids.cachedStreamerIds)]
       ELSE \E readable \in BOOLEAN :
               IF ~readable
               THEN ids' = [ids EXCEPT !.status = 500, !.success = FALSE,
                                       !.cached = FALSE, !.data = <<>>,
                                       !.count = 0]
               ELSE \E file \in IdFiles :
                       ids' = [loaded |-> TRUE,
                               cachedStreamerIds |-> ExtractIds(file),
                               cacheTimestamp |-> StampOf(now),
                               filledAt |-> now,
                               status |-> 200, success |-> TRUE, cached |-> FALSE,
                               data |-> ExtractIds(file),
                               count |-> Len(ExtractIds(file))]
    /\ UNCHANGED <<callers, api, vrun, imp, peer, val, fetch, upstream, env, now, cache,
                   streamers, clips, twitch_clips, collection_logs, run, scan>>

\* Date.now() between two requests to the endpoint
TimePasses ==
    /\ \E d \in {1, CACHE_DURATION - 1} :
          /\ now + d <= MaxIdsClock
          /\ now' = now + d
    /\ UNCHANGED <<ids, callers, api, vrun, imp, peer, val, fetch, upstream, env, cache,
                   streamers, clips, twitch_clips, collection_logs, run, scan>>

(***************************************************************************)
(* One handler invocation                                                  *)
(***************************************************************************)
LimitCap == 500
MaxPagesCap == 10
\* count of an errored count query (null)
NullCount == -1
\* next: null
NoNext == -1

NoResponse ==
    [status |-> 0, success |-> FALSE, body |-> "none", completed |-> FALSE,
     offset |-> 0, processed_so_far |-> 0, nextOffset |-> NoNext,
     total_streamers |-> 0,
     streamers_in_batch |-> 0, streamers_checked |-> 0, streamers_with_clips |-> 0,
     clips_found |-> 0, clips_valid |-> 0, clips_saved |-> 0]

\* exchange, pageError, submitted, batchOk, written, rowsWritten, conflicts,
\* refreshed, streamerErrors and headerMatches record what happened during
\* the run (the last two: the streamers whose processing raised an error,
\* and whether the Authorization header was 'Bearer <CRON_SECRET>'): the outcome of the
\* token exchange, whether the query for the page of streamers came back
\* with an error, the batches handed to the store, the store's verdict on
\* each of them, the clip ids and the number of the
\* rows the store wrote, the number of submitted rows whose key was already
\* stored, and how many of these came with another view count than the stored
RunIdle ==
    [handler |-> "none", method |-> "GET", pc |-> "idle", offsetNum |-> 0, limitNum |-> 0,
     maxPagesNum |-> 0, token |-> Null, totalStreamers |-> 0, batch |-> <<>>,
     idx |-> 0, allClips |-> <<>>, seenClipIds |-> {}, streamersChecked |-> 0,
     streamersWithClips |-> 0, vodTitles |-> [v \in VideoIds |-> Null],
     profiles |-> [b \in StreamerIds |-> Null],
     records |-> <<>>, i |-> 0, inserted |-> 0, total_valid |-> 0, logId |-> 0,
     response |-> NoResponse,
     exchange |-> "none", pageError |-> FALSE, submitted |-> <<>>,
     batchOk |-> <<>>, written |-> {},
     rowsWritten |-> 0, conflicts |-> 0, refreshed |-> 0, streamerErrors |-> 0,
     headerMatches |-> TRUE]

ScanStart ==
    [next |-> 0, completed |-> FALSE, runs |-> 0,
     processed |-> [id \in StreamerIds |-> 0]]

\* res.status(500).json({ success: false, error })
Failed(r) ==
    [r EXCEPT !.pc = "done",
              !.response = [NoResponse EXCEPT !.status = 500, !.body = "error"]]

\* a handler without the check
Unauthorized_Never(e, headerMatches) == FALSE
\* cronSecret && authHeader !== `Bearer ${cronSecret}` && NODE_ENV === 'production'
Unauthorized(e, headerMatches) == e.cronSecret /\ ~headerMatches /\ e.production

\* bulk-scan: auth check and query parameters; the caller passes the offset
\* of the previous response's next, 0 at first, and goes on until a response
\* says completed or carries no next offset because the run failed
BulkInvoke ==
    /\ env.handler = "bulk"
    /\ run.pc \in {"idle", "done"}
    /\ scan.runs < env.runs
    /\ ~scan.completed
    /\ run.response.status # 500
    /\ now' = now + 1
    /\ scan' = [scan EXCEPT !.runs = @ + 1]
    /\ \E headerMatches \in BOOLEAN :
          run' = IF Unauthorized(env, headerMatches)
                 THEN [RunIdle EXCEPT
                          !.handler = "bulk", !.pc = "done",
                          !.headerMatches = headerMatches,
                          !.response = [NoResponse EXCEPT !.status = 401,
                                                          !.body = "unauthorized"]]
                 ELSE [RunIdle EXCEPT
                          !.handler = "bulk", !.pc = "token",
                          !.headerMatches = headerMatches,
                          !.offsetNum = scan.next,
                          !.limitNum = Min(env.limit, LimitCap),
                          !.maxPagesNum = Min(env.max_pages, MaxPagesCap)]
    /\ UNCHANGED <<ids, callers, api, vrun, imp, peer, val, fetch, upstream, env, cache, streamers, clips, twitch_clips,
                   collection_logs>>

\* getTwitchToken as called by bulk-scan and collect
GetTwitchToken ==
    /\ run.pc = "token"
    /\ run.handler \in {"bulk", "collect"}
    /\ IF CacheFresh(cache[run.handler], now)
       THEN /\ run' = [run EXCEPT !.pc = "page", !.token = cache[run.handler].accessToken]
            /\ UNCHANGED cache
       ELSE \E resp \in TokenResponses(env.credentials, upstream.lifetimes) :
               IF resp.kind = "network_error"
               THEN /\ run' = [Failed(run) EXCEPT !.exchange = resp.kind]
                    /\ UNCHANGED cache
               ELSE /\ cache' = [cache EXCEPT ![run.handler] = CacheAfter(resp, now)]
                    /\ run' = [run EXCEPT !.pc = "page", !.exchange = resp.kind,
                                          !.token = CacheAfter(resp, now).accessToken]
    /\ UNCHANGED <<ids, callers, api, vrun, imp, peer, val, fetch, upstream, env, now, streamers, clips, twitch_clips,
                   collection_logs, scan>>

\* whether a query on table streamers can come back with an error
QueryOutcomes(e) == IF e.queryErrors THEN BOOLEAN ELSE {TRUE}

\* an answer that asks the caller to go on
EmptyPageAnswer_NotCompleted(r, total) ==
    [NoResponse EXCEPT !.status = 200, !.success = TRUE, !.body = "empty",
                       !.completed = FALSE, !.offset = r.offsetNum,
                       !.nextOffset = r.offsetNum + r.limitNum,
                       !.total_streamers = total]

\* { success: true, message: 'No more streamers to process',
\*   progress: { offset, total_streamers, completed: true } }
EmptyPageAnswer(r, total) ==
    [NoResponse EXCEPT !.status = 200, !.success = TRUE, !.body = "empty",
                       !.completed = TRUE, !.offset = r.offsetNum,
                       !.total_streamers = total]

\* bulk-scan: the count query, the range query and the empty-page answer
BulkLoadPage ==
    /\ run.pc = "page"
    /\ run.handler = "bulk"
    /\ \E countOk \in QueryOutcomes(env), rangeOk \in QueryOutcomes(env) :
          LET active == ActiveById(streamers)
              total  == IF countOk THEN Len(active) ELSE NullCount
              rows   == IF rangeOk
                        THEN Range(active, run.offsetNum, run.offsetNum + run.limitNum - 1)
                        ELSE <<>>
          IN  IF rows = <<>>
              THEN /\ run' = [run EXCEPT
                                 !.pc = "done", !.totalStreamers = total,
                                 !.pageError = ~rangeOk,
                                 !.response = EmptyPageAnswer(run, total)]
                   /\ scan' = [scan EXCEPT
                                  !.completed = EmptyPageAnswer(run, total).completed,
                                  !.next = IF EmptyPageAnswer(run, total).completed
                                           THEN @
                                           ELSE EmptyPageAnswer(run, total).nextOffset]
                   /\ UNCHANGED fetch
              ELSE /\ run' = [run EXCEPT !.pc = "fetching", !.totalStreamers = total,
                                         !.batch = rows, !.idx = 1]
                   /\ scan' = [scan EXCEPT !.processed =
                                  [id \in StreamerIds |->
                                      IF \E k \in 1..Len(rows) : rows[k] = id
                                      THEN @[id] + 1 ELSE @[id]]]
                   /\ fetch' = FetchEntry("bulk", run.maxPagesNum)
    /\ UNCHANGED <<ids, callers, api, vrun, imp, peer, val, upstream, env, now, cache, streamers, clips, twitch_clips,
                   collection_logs>>


\* the accumulation step without the seenClipIds test
AddClip_NoSeenTest(acc, clip) ==
    [allClips |-> Append(acc.allClips, clip),
     seenClipIds |-> acc.seenClipIds \cup {clip.id}]

\* if (!seenClipIds.has(clip.id)) { seenClipIds.add(clip.id); allClips.push(clip) }
AddClip(acc, clip) ==
    IF clip.id \in acc.seenClipIds THEN acc
    ELSE [allClips |-> Append(acc.allClips, clip),
          seenClipIds |-> acc.seenClipIds \cup {clip.id}]

RECURSIVE Dedup(_, _, _)
\* for (const clip of clips) { ... }
Dedup(all, seen, new) ==
    IF new = <<>> THEN [allClips |-> all, seenClipIds |-> seen]
    ELSE LET acc == AddClip([allClips |-> all, seenClipIds |-> seen], Head(new))
         IN  Dedup(acc.allClips, acc.seenClipIds, Tail(new))

\* a counter of the clips of the streamers instead of the streamers
StreamerChecked_CountsClips(r, got) ==
    LET d == Dedup(r.allClips, r.seenClipIds, got)
    IN  [r EXCEPT !.streamersWithClips = IF r.handler = "bulk" THEN @ + Len(got) ELSE @,
                  !.allClips = d.allClips,
                  !.seenClipIds = d.seenClipIds,
                  !.streamersChecked = @ + 1]

\* the body of the per-streamer try block after the fetch returned clips
\* (streamersWithClips exists in bulk-scan only)
StreamerChecked(r, got) ==
    LET d == Dedup(r.allClips, r.seenClipIds, got)
    IN  [r EXCEPT !.streamersWithClips = IF r.handler = "bulk" /\ Len(got) > 0
                                        THEN @ + 1 ELSE @,
                  !.allClips = d.allClips,
                  !.seenClipIds = d.seenClipIds,
                  !.streamersChecked = @ + 1]

\* a loop that leaves for the metadata lookups after its first streamer
NextStreamer_LeavesEarly(r) == [r EXCEPT !.idx = @ + 1, !.pc = "vod"]

\* the for loop moves to the next streamer, or ends
NextStreamer(r) ==
    IF r.idx < Len(r.batch) THEN [r EXCEPT !.idx = @ + 1]
    ELSE [r EXCEPT !.idx = @ + 1, !.pc = "vod"]

\* a per-streamer catch that rethrows instead of logging
StreamerFailed_Abort(r) == Failed(r)

\* catch (e) { console.error(...) }: the streamer is skipped
StreamerFailed(r) == NextStreamer([r EXCEPT !.streamerErrors = @ + 1])

\* an update issued only for a streamer that has clips
StreamersAfter_OnlyWithClips(tbl, h, id, t, f, updated) ==
    IF f.pc = "returned" /\ f.clips # <<>> /\ updated
    THEN IF h = "bulk"
         THEN [tbl EXCEPT ![id].last_clip_check = t, ![id].last_bulk_scan = t]
         ELSE [tbl EXCEPT ![id].last_clip_check = t]
    ELSE tbl

\* table streamers after the loop body: the update follows the fetch inside
\* the try block, so it is skipped when the fetch threw; its result is not
\* looked at, and bulk-scan also sets last_bulk_scan
StreamersAfter(tbl, h, id, t, f, updated) ==
    IF f.pc = "returned" /\ updated
    THEN IF h = "bulk"
         THEN [tbl EXCEPT ![id].last_clip_check = t, ![id].last_bulk_scan = t]
         ELSE [tbl EXCEPT ![id].last_clip_check = t]
    ELSE tbl

\* bulk-scan: the fetch of the current streamer is over
BulkStreamerDone ==
    /\ run.pc = "fetching"
    /\ run.handler = "bulk"
    /\ fetch.pc \in {"returned", "threw"}
    /\ LET id == run.batch[run.idx]
           r2 == IF fetch.pc = "returned"
                 THEN NextStreamer(StreamerChecked(run, fetch.clips))
                 ELSE StreamerFailed(run)
       IN  /\ run' = r2
           /\ fetch' = IF r2.pc = "fetching" THEN FetchEntry("bulk", run.maxPagesNum)
                       ELSE FetchIdle
           /\ \E updated \in QueryOutcomes(env) :
                 streamers' = StreamersAfter(streamers, "bulk", id, now, fetch, updated)
    /\ UNCHANGED <<ids, callers, api, vrun, imp, peer, val, upstream, env, now, cache, clips, twitch_clips,
                   collection_logs, scan>>

\* allClips.map(c => c.broadcaster_id), as a set
UserIdsOf(all) == { all[k].broadcaster_id : k \in 1..Len(all) }

\* getVODTitles over allClips.map(c => c.video_id).filter(Boolean): a failed
\* batch and a video the API does not return leave no entry; nothing is thrown
GetVODTitles ==
    /\ run.pc = "vod"
    /\ run.handler \in {"bulk", "collect"}
    /\ \E resolved \in SUBSET ({ run.allClips[k].video_id : k \in 1..Len(run.allClips) }
                               \ {NoVideo}) :
          run' = [run EXCEPT !.pc = "profiles",
                             !.vodTitles = [v \in VideoIds |->
                                 IF v \in resolved THEN VodTitleOf(v) ELSE Null]]
    /\ UNCHANGED <<ids, callers, api, vrun, imp, peer, val, fetch, upstream, env, now, cache, streamers, clips,
                   twitch_clips, collection_logs, scan>>

\* getUserProfiles: a non-2xx batch leaves no entries; a rejected fetch is not
\* caught and reaches the handler's catch
GetUserProfiles ==
    /\ run.pc = "profiles"
    /\ \/ \E found \in SUBSET UserIdsOf(run.allClips) :
             run' = [run EXCEPT !.pc = "save",
                                !.profiles = [b \in StreamerIds |->
                                    IF b \in found THEN ProfileImage ELSE Null]]
       \/ /\ UserIdsOf(run.allClips) # {}
          /\ run' = Failed(run)
    /\ UNCHANGED <<ids, callers, api, vrun, imp, peer, val, fetch, upstream, env, now, cache, streamers, clips,
                   twitch_clips, collection_logs, scan>>

\* clip.video_id ? vodTitles[clip.video_id] : null
VodTitleFor(clip, vodTitles) ==
    IF clip.video_id # NoVideo THEN vodTitles[clip.video_id] ELSE Null

\* the filter of saveClips
IsValidClip(clip, vodTitles) == isChaseRPContent(clip.title, VodTitleFor(clip, vodTitles))

\* a row of table clips
ClipRecord(clip, vodTitles, profiles) ==
    [clip_id |-> clip.id, platform |-> "twitch", view_count |-> clip.view_count,
     vod_title |-> VodTitleFor(clip, vodTitles),
     profile_image_url |-> profiles[clip.broadcaster_id]]

RECURSIVE MapRecords(_, _, _)
MapRecords(cs, vodTitles, profiles) ==
    IF cs = <<>> THEN <<>>
    ELSE <<ClipRecord(Head(cs), vodTitles, profiles)>>
         \o MapRecords(Tail(cs), vodTitles, profiles)

\* a filter that lets every clip through
ValidClips_Unfiltered(cs, vodTitles) == cs

\* clips.filter(clip => isChaseRPContent(clip.title, vodTitle))
ValidClips(cs, vodTitles) ==
    LET Keep(c) == IsValidClip(c, vodTitles) IN SelectSeq(cs, Keep)

\* the batch loop is over: the edge function and bulk-scan answer, collect
\* updates its log row
AfterBatches(r) == IF r.handler = "collect" THEN "log" ELSE "respond"

\* saveClips: filter, early return, records
SaveClipsEntered(r) ==
    LET valid == ValidClips(r.allClips, r.vodTitles)
    IN  IF valid = <<>>
        THEN [r EXCEPT !.pc = AfterBatches(r), !.inserted = 0, !.total_valid = 0]
        ELSE [r EXCEPT !.pc = "upsert", !.i = 0, !.inserted = 0,
                       !.total_valid = Len(valid),
                       !.records = MapRecords(valid, r.vodTitles, r.profiles)]

SaveClipsEnter ==
    /\ run.pc = "save"
    /\ run' = SaveClipsEntered(run)
    /\ UNCHANGED <<ids, callers, api, vrun, imp, peer, val, fetch, upstream, env, now, cache, streamers, clips,
                   twitch_clips, collection_logs, scan>>

\* records.slice(i, i + 100)
\* a slice that always starts at the first record
Slice_FromStart(records, i) == SubSeq(records, 1, Min(BatchSize, Len(records)))

\* records.slice(i, i + 100)
Slice(records, i) == SubSeq(records, i + 1, Min(i + BatchSize, Len(records)))

ClipsKey == {"platform", "clip_id"}

\* saveClips with the option of insertClips
SaveClipsIgnoreDuplicates_AsInsertClips == TRUE

\* saveClips: ignoreDuplicates: false
SaveClipsIgnoreDuplicates == FALSE

\* insertClips overwriting the rows it meets
InsertClipsIgnoreDuplicates_AsSaveClips == FALSE
\* insertClips: ignoreDuplicates: true
InsertClipsIgnoreDuplicates == TRUE

\* one iteration of the batch loop: count the batch if the store took it, go on
BatchDone(r, batch, ok, counted) ==
    [r EXCEPT !.i = @ + BatchSize,
              !.inserted = IF ok THEN @ + counted ELSE @,
              !.submitted = Append(@, batch),
              !.batchOk = Append(@, ok),
              !.pc = IF r.i + BatchSize < Len(r.records) THEN r.pc
                     ELSE AfterBatches(r)]

\* what the store did with the batch: the keys it wrote, the submitted rows
\* that met a stored key, and those among them with another view count
Observed(r, tbl, batch, ok, ignoreDuplicates) ==
    LET stored  == { q.clip_id : q \in tbl }
        keys    == { batch[k].clip_id : k \in 1..Len(batch) }
        wrote   == IF ~ok THEN {}
                   ELSE IF ignoreDuplicates THEN keys \ stored ELSE keys
        met     == IF ~ok THEN 0
                   ELSE Cardinality({ k \in 1..Len(batch) : batch[k].clip_id \in stored })
        differ  == IF ~ok THEN {}
                   ELSE { k \in 1..Len(batch) :
                            \E q \in tbl : /\ q.clip_id = batch[k].clip_id
                                           /\ q.view_count # batch[k].view_count }
    IN  [r EXCEPT !.written = @ \cup wrote,
                  !.rowsWritten = @ + Cardinality(wrote),
                  !.conflicts = @ + met,
                  !.refreshed = @ + Cardinality(differ)]

\* saveClips: one upsert batch, onConflict 'platform,clip_id', ignoreDuplicates false;
\* data is the rows of the batch
UpsertBatch ==
    /\ run.pc = "upsert"
    /\ run.handler \in {"bulk", "collect"}
    /\ LET batch == Slice(run.records, run.i)
       IN  \E ok \in BOOLEAN :
              /\ ok => StoreAccepts(batch, ClipsKey, SaveClipsIgnoreDuplicates)
              /\ clips' = IF ok THEN Upsert(clips, batch, ClipsKey,
                                            SaveClipsIgnoreDuplicates) ELSE clips
              /\ run' = Observed(BatchDone(run, batch, ok, Len(batch)),
                                 clips, batch, ok, SaveClipsIgnoreDuplicates)
    /\ UNCHANGED <<ids, callers, api, vrun, imp, peer, val, fetch, upstream, env, now, cache, streamers, twitch_clips,
                   collection_logs, scan>>

\* the offset advanced by the requested page size
NextOffset_PageSize(r) == r.offsetNum + r.limitNum

\* const nextOffset = offsetNum + streamers.length
NextOffset(r) == r.offsetNum + Len(r.batch)

\* bulk-scan: the answer of a processed page
BulkRespond ==
    /\ run.pc = "respond"
    /\ run.handler = "bulk"
    /\ LET nextOffset == NextOffset(run)
           \* nextOffset >= totalStreamers, a null count comparing as 0
           isComplete == IF run.totalStreamers = NullCount
                         THEN nextOffset >= 0
                         ELSE nextOffset >= run.totalStreamers
       IN  /\ run' = [run EXCEPT
                         !.pc = "done",
                         !.response = [NoResponse EXCEPT
                             !.status = 200, !.success = TRUE, !.body = "page",
                             !.completed = isComplete, !.offset = run.offsetNum,
                             !.processed_so_far = nextOffset,
                             !.nextOffset = IF isComplete THEN NoNext ELSE nextOffset,
                             !.total_streamers = run.totalStreamers,
                             !.streamers_in_batch = Len(run.batch),
                             !.streamers_checked = run.streamersChecked,
                             !.streamers_with_clips = run.streamersWithClips,
                             !.clips_found = Len(run.allClips),
                             !.clips_valid = run.total_valid,
                             !.clips_saved = run.inserted]]
           /\ scan' = [scan EXCEPT !.completed = isComplete,
                                   !.next = IF isComplete THEN @ ELSE nextOffset]
    /\ UNCHANGED <<ids, callers, api, vrun, imp, peer, val, fetch, upstream, env, now, cache, streamers, clips,
                   twitch_clips, collection_logs>>


(***************************************************************************)
(* collect: the periodic collector                                         *)
(***************************************************************************)
CollectMaxPages == 3

\* a handler that reads logEntry.id without the optional chaining
WithLogId_NoOptionalChaining(r, tbl, logged) ==
    IF logged THEN [r EXCEPT !.logId = Len(tbl) + 1] ELSE Failed(r)

\* const { data: logEntry } = await insert...; const logId = logEntry?.id:
\* without a created row logId is undefined (0) and the run goes on
WithLogId(r, tbl, logged) ==
    [r EXCEPT !.logId = IF logged THEN Len(tbl) + 1 ELSE 0]

\* collect: auth check and creation of the log row
CollectInvoke ==
    /\ env.handler = "collect"
    /\ run.pc \in {"idle", "done"}
    /\ scan.runs < env.runs
    /\ now' = now + 1
    /\ scan' = [scan EXCEPT !.runs = @ + 1]
    /\ \E headerMatches \in BOOLEAN, logged \in QueryOutcomes(env) :
          IF Unauthorized(env, headerMatches)
          THEN /\ run' = [RunIdle EXCEPT
                             !.handler = "collect", !.pc = "done",
                             !.headerMatches = headerMatches,
                             !.response = [NoResponse EXCEPT !.status = 401,
                                                             !.body = "unauthorized"]]
               /\ UNCHANGED collection_logs
          ELSE /\ collection_logs' = IF logged
                                     THEN Append(collection_logs, [status |-> "running"])
                                     ELSE collection_logs
               /\ run' = WithLogId([RunIdle EXCEPT !.handler = "collect",
                                                    !.headerMatches = headerMatches,
                                                    !.pc = "token"],
                                    collection_logs, logged)
    /\ UNCHANGED <<ids, callers, api, vrun, imp, peer, val, fetch, upstream, env, cache, streamers, clips, twitch_clips>>

\* rows is tbl's active streamers ordered by last_clip_check, never-checked
\* (0) first, in some order of the ties
OrderedByLastCheck(rows, tbl) ==
    /\ Len(rows) = Cardinality({ id \in DOMAIN tbl : tbl[id].is_active })
    /\ \A k \in 1..Len(rows) : tbl[rows[k]].is_active
    /\ \A j, k \in 1..Len(rows) :
          j < k => /\ rows[j] # rows[k]
                   /\ tbl[rows[j]].last_clip_check <= tbl[rows[k]].last_clip_check

\* collect: the streamer query and the answer when it yields nothing
CollectLoadPage ==
    /\ run.pc = "page"
    /\ run.handler = "collect"
    /\ \E queried \in QueryOutcomes(env), ordered \in SeqsUpTo(StreamerIds, MaxStreamers) :
          /\ OrderedByLastCheck(ordered, streamers)
          /\ LET rows == IF queried THEN SubSeq(ordered, 1, Min(CollectLimit, Len(ordered)))
                         ELSE <<>>
             IN  IF rows = <<>>
                 THEN /\ run' = [run EXCEPT
                                    !.pc = "done", !.pageError = ~queried,
                                    !.response = [NoResponse EXCEPT
                                        !.status = 200, !.success = TRUE,
                                        !.body = "empty"]]
                      /\ UNCHANGED <<fetch, scan>>
                 ELSE /\ run' = [run EXCEPT !.pc = "fetching", !.batch = rows, !.idx = 1]
                      /\ scan' = [scan EXCEPT !.processed =
                                     [id \in StreamerIds |->
                                         IF \E k \in 1..Len(rows) : rows[k] = id
                                         THEN @[id] + 1 ELSE @[id]]]
                      /\ fetch' = FetchEntry("collect", CollectMaxPages)
    /\ UNCHANGED <<ids, callers, api, vrun, imp, peer, val, upstream, env, now, cache, streamers, clips, twitch_clips,
                   collection_logs>>

\* collect: the fetch of the current streamer is over
CollectStreamerDone ==
    /\ run.pc = "fetching"
    /\ run.handler = "collect"
    /\ fetch.pc \in {"returned", "threw"}
    /\ LET id == run.batch[run.idx]
           r2 == IF fetch.pc = "returned"
                 THEN NextStreamer(StreamerChecked(run, fetch.clips))
                 ELSE StreamerFailed(run)
       IN  /\ run' = r2
           /\ fetch' = IF r2.pc = "fetching" THEN FetchEntry("collect", CollectMaxPages)
                       ELSE FetchIdle
           /\ \E updated \in QueryOutcomes(env) :
                 streamers' = StreamersAfter(streamers, "collect", id, now, fetch, updated)
    /\ UNCHANGED <<ids, callers, api, vrun, imp, peer, val, upstream, env, now, cache, clips, twitch_clips,
                   collection_logs, scan>>

\* collect: update of the log row (when it was created) and the answer
CollectRespond ==
    /\ run.pc = "log"
    /\ run.handler = "collect"
    /\ \E logged \in QueryOutcomes(env) :
          collection_logs' =
              IF run.logId # 0 /\ logged
              THEN [collection_logs EXCEPT ![run.logId] = [status |-> "completed"]]
              ELSE collection_logs
    /\ run' = [run EXCEPT
                  !.pc = "done",
                  !.response = [NoResponse EXCEPT
                      !.status = 200, !.success = TRUE, !.body = "page",
                      !.streamers_checked = run.streamersChecked,
                      !.clips_found = Len(run.allClips),
                      !.clips_saved = run.inserted]]
    /\ UNCHANGED <<ids, callers, api, vrun, imp, peer, val, fetch, upstream, env, now, cache, streamers, clips,
                   twitch_clips, scan>>


(***************************************************************************)
(* collect-clips edge function                                             *)
(***************************************************************************)
EdgeKey == {"clip_id"}

\* a row of table twitch_clips as the edge function builds it
EdgeRecord(clip) ==
    [clip_id |-> clip.id, view_count |-> clip.view_count, is_valid |-> TRUE,
     last_validated_at |-> 0]

RECURSIVE MapEdgeRecords(_)
MapEdgeRecords(cs) ==
    IF cs = <<>> THEN <<>> ELSE <<EdgeRecord(Head(cs))>> \o MapEdgeRecords(Tail(cs))

\* if (req.method !== "GET") return 405, in both edge functions
MethodAllowed(method) == method = "GET"

\* edge function: method check and credentials check
EdgeInvoke ==
    /\ env.handler = "edge"
    /\ run.pc \in {"idle", "done"}
    /\ scan.runs < env.runs
    /\ now' = now + 1
    /\ scan' = [scan EXCEPT !.runs = @ + 1]
    /\ \E method \in {"GET", "POST"} :
          run' = IF ~MethodAllowed(method)
                 THEN [RunIdle EXCEPT
                          !.handler = "edge", !.method = method, !.pc = "done",
                          !.response = [NoResponse EXCEPT !.status = 405,
                                                          !.body = "method"]]
                 ELSE IF ~env.credentials
                 THEN Failed([RunIdle EXCEPT !.handler = "edge", !.method = method])
                 ELSE [RunIdle EXCEPT !.handler = "edge", !.method = method,
                                      !.pc = "token"]
    /\ UNCHANGED <<ids, callers, api, vrun, imp, peer, val, fetch, upstream, env, cache, streamers, clips, twitch_clips,
                   collection_logs>>

\* getTwitchToken of the edge function: no cache, any failure is thrown
EdgeGetTwitchToken ==
    /\ run.pc = "token"
    /\ run.handler = "edge"
    /\ \E resp \in TokenResponses(env.credentials, upstream.lifetimes) :
          run' = IF resp.kind = "ok"
                 THEN [run EXCEPT !.pc = "config", !.token = Token, !.exchange = "ok"]
                 ELSE [Failed(run) EXCEPT !.exchange = resp.kind]
    /\ UNCHANGED <<ids, callers, api, vrun, imp, peer, val, fetch, upstream, env, now, cache, streamers, clips,
                   twitch_clips, collection_logs, scan>>

\* getTwitchUserIdByName, then fetchClipsForStreamer or 'continue'
EdgeNextStreamer(r) ==
    IF r.idx < Len(r.batch) THEN [r EXCEPT !.idx = @ + 1, !.pc = "user"]
    ELSE [r EXCEPT !.idx = @ + 1,
                   !.pc = IF r.records = <<>> THEN "respond" ELSE "upsert"]

\* edge function: the configuration of the server and its streamer history
EdgeLoadConfig ==
    /\ run.pc = "config"
    /\ run.handler = "edge"
    /\ \E configured \in QueryOutcomes(env), listed \in QueryOutcomes(env) :
          run' = IF ~configured
                 THEN [run EXCEPT
                          !.pc = "done",
                          !.response = [NoResponse EXCEPT !.status = 200,
                                            !.success = TRUE, !.body = "empty"]]
                 ELSE IF ~listed \/ env.history = {}
                 THEN [run EXCEPT !.pc = "respond"]
                 ELSE [run EXCEPT !.pc = "user", !.batch = SortedSeq(env.history),
                                  !.idx = 1]
    /\ UNCHANGED <<ids, callers, api, vrun, imp, peer, val, fetch, upstream, env, now, cache, streamers, clips,
                   twitch_clips, collection_logs, scan>>

\* edge function: the user id of the current streamer, found or not
EdgeStreamerStart ==
    /\ run.pc = "user"
    /\ run.handler = "edge"
    /\ \E found \in BOOLEAN :
          IF found
          THEN /\ run' = [run EXCEPT !.pc = "fetching"]
               /\ fetch' = FetchEntry("edge", EdgeMaxPages)
          ELSE /\ run' = EdgeNextStreamer(run)
               /\ UNCHANGED fetch
    /\ UNCHANGED <<ids, callers, api, vrun, imp, peer, val, upstream, env, now, cache, streamers, clips, twitch_clips,
                   collection_logs, scan>>

\* edge function: the clips of the current streamer become rows to insert,
\* without title filter
EdgeStreamerDone ==
    /\ run.pc = "fetching"
    /\ run.handler = "edge"
    /\ fetch.pc = "returned"
    /\ run' = EdgeNextStreamer([run EXCEPT
                  !.allClips = @ \o fetch.clips,
                  !.records = @ \o MapEdgeRecords(fetch.clips)])
    /\ fetch' = FetchIdle
    /\ UNCHANGED <<ids, callers, api, vrun, imp, peer, val, upstream, env, now, cache, streamers, clips, twitch_clips,
                   collection_logs, scan>>

\* insertClips: one batch, onConflict 'clip_id', ignoreDuplicates true; the
\* whole batch is counted
EdgeInsertBatch ==
    /\ run.pc = "upsert"
    /\ run.handler = "edge"
    /\ LET batch == Slice(run.records, run.i)
       IN  \E ok \in BOOLEAN :
              /\ twitch_clips' = IF ok THEN Upsert(twitch_clips, batch, EdgeKey,
                                                      InsertClipsIgnoreDuplicates)
                                 ELSE twitch_clips
              /\ run' = Observed(BatchDone(run, batch, ok, Len(batch)),
                                 twitch_clips, batch, ok, InsertClipsIgnoreDuplicates)
    /\ UNCHANGED <<ids, callers, api, vrun, imp, peer, val, fetch, upstream, env, now, cache, streamers, clips,
                   collection_logs, scan>>

\* edge function: the summary
EdgeRespond ==
    /\ run.pc = "respond"
    /\ run.handler = "edge"
    /\ run' = [run EXCEPT
                  !.pc = "done",
                  !.response = [NoResponse EXCEPT
                      !.status = 200, !.success = TRUE, !.body = "page",
                      !.clips_found = Len(run.allClips),
                      !.clips_saved = run.inserted]]
    /\ UNCHANGED <<ids, callers, api, vrun, imp, peer, val, fetch, upstream, env, now, cache, streamers, clips,
                   twitch_clips, collection_logs, scan>>

\* everything but the validator and the standalone fetch at rest
(***************************************************************************)
(* validate-clips: the edge function that re-checks stored clips           *)
(***************************************************************************)
\* the view returns at most 1000 rows; scaled
ValidateLimit == 2
\* the view selects rows validated more than 7 days ago; scaled
RevalidateAfter == 2
\* the edge function is called at most this often
MaxValidations == 2

\* the answer of the last validate-clips call: none yet; taken, head2xx and
\* updated record the rows the view returned and the clip ids whose HEAD
\* request was answered 2xx and whose update the store took
ValidateIdle ==
    [calls |-> 0, method |-> "GET", status |-> 0, checked |-> {}, validated |-> 0,
     invalidated |-> 0, taken |-> {}, head2xx |-> {}, updated |-> {}]

\* a request error taken for a valid clip
IsClipValid_ErrorCountsValid(status) == status < 300
\* response.status >= 200 && response.status < 300; false from the catch
IsClipValid(status) == status >= 200 /\ status < 300

\* view clips_needing_validation: never validated (null, 0) or validated
\* longer ago than the interval
NeedingValidation(tbl, t) ==
    { r \in tbl : r.last_validated_at = 0 \/ r.last_validated_at + RevalidateAfter < t }

\* updateClipValidity for every checked row whose update the store took
AfterValidation(tbl, chosen, verdict, stored, t) ==
    { IF r \in chosen /\ stored[r]
      THEN [r EXCEPT !.is_valid = verdict[r], !.last_validated_at = t]
      ELSE r : r \in tbl }

\* validate-clips, one invocation: the method check, the rows of the view
\* (none when the query fails), a HEAD request and an update for each, and
\* the summary
ValidateClips ==
    /\ env.handler = "edge"
    /\ run.pc \in {"idle", "done"}
    /\ vrun.calls < MaxValidations
    /\ now' = now + 1
    /\ \E method \in {"GET", "POST"} :
          IF ~MethodAllowed(method)
          THEN /\ vrun' = [ValidateIdle EXCEPT !.calls = vrun.calls + 1,
                                               !.method = method, !.status = 405]
               /\ UNCHANGED twitch_clips
          ELSE \E queried \in QueryOutcomes(env),
                  chosen \in SUBSET NeedingValidation(twitch_clips, now') :
                  /\ Cardinality(chosen) =
                        (IF queried
                         THEN Min(ValidateLimit,
                                  Cardinality(NeedingValidation(twitch_clips, now')))
                         ELSE 0)
                  /\ \E head \in [chosen -> {200, 404, NETWORK_ERROR}],
                        stored \in [chosen -> BOOLEAN] :
                        LET verdict == [r \in chosen |-> IsClipValid(head[r])]
                        IN
                        /\ twitch_clips' =
                              AfterValidation(twitch_clips, chosen, verdict, stored, now')
                        /\ vrun' =
                              [calls |-> vrun.calls + 1, method |-> method,
                               status |-> 200,
                               checked |-> { r.clip_id : r \in chosen },
                               validated |-> Cardinality({ r \in chosen : stored[r] }),
                               invalidated |->
                                   Cardinality({ r \in chosen :
                                                   stored[r] /\ ~verdict[r] }),
                               taken |-> chosen,
                               head2xx |->
                                   { r.clip_id : r \in { x \in chosen :
                                                           head[x] \in 200..299 } },
                               updated |->
                                   { r.clip_id : r \in { x \in chosen : stored[x] } }]
    /\ UNCHANGED <<ids, callers, api, imp, peer, val, fetch, upstream, env, cache, streamers, clips,
                   collection_logs, run, scan>>

(***************************************************************************)
(* GET /api/clips: the read API (api/clips.js), in its original and its    *)
(* schema-aware version.  Dates are minutes relative to the request, which *)
(* is made at time now; a stored row is as old as 0 - created_at.          *)
(***************************************************************************)
\* Math.min(parseInt(limit), 500): the cap on the rows of one answer; scaled
ApiMaxLimit == 2
\* the largest limit and the largest offset a caller asks for
MaxLimitArg == 3
MaxOffsetArg == 2

\* a row of table clips with the columns the API filters and sorts on
ApiRow(id, created, valid) ==
    [clip_id |-> id, title |-> TitleOf(id), broadcaster_id |-> BroadcasterOf(id),
     view_count |-> id, created_at |-> created, is_valid |-> valid]

\* the tables: rows of clips 1 and 2, created at the time of the request or
\* two minutes before, valid or not, at most one row for a clip_id
ApiTables ==
    { t \in SUBSET { ApiRow(id, c, v) : id \in 1..2, c \in {-2, 0}, v \in BOOLEAN } :
        \A r, q \in t : r.clip_id = q.clip_id => r = q }

\* no streamer parameter in the request
NoStreamerFilter == 0

\* no request yet
ApiIdle ==
    [handler |-> "none", period |-> "7d", streamer |-> NoStreamerFilter,
     search |-> Null,
     sort |-> "views", limitArg |-> 0, status |-> 0, data |-> <<>>, total |-> 0,
     limit |-> 0, offset |-> 0, hasMore |-> FALSE]

\* .eq('is_valid', true), .gte(created_at, startDate), the streamer filter
\* and .ilike(title, %search%); now - startDate is scaled to one minute for
\* 24h and two minutes for 7d
Matches(r, period, streamer, search, t) ==
    /\ r.is_valid
    /\ period # "all" => r.created_at >= (IF period = "24h" THEN t - 1 ELSE t - 2)
    /\ streamer # NoStreamerFilter => r.broadcaster_id = streamer
    /\ search # Null => Includes(ToLowerCase(r.title), ToLowerCase(search))

\* the matching rows in every order that ORDER BY view_count DESC or
\* created_at DESC allows
Ordered(S, sort) ==
    { rows \in [1..Cardinality(S) -> S] :
        /\ { rows[i] : i \in 1..Cardinality(S) } = S
        /\ \A i, j \in 1..Cardinality(S) :
              i < j => IF sort = "views"
                       THEN rows[i].view_count >= rows[j].view_count
                       ELSE rows[i].created_at >= rows[j].created_at }

\* the count of the schema-aware version, asked for with the filtered query
FilteredCount(tbl, period, streamer, search, t) ==
    Cardinality({ r \in tbl : Matches(r, period, streamer, search, t) })

\* GET /api/clips: the one request of a behaviour and its answer; the
\* handler keeps nothing between requests and writes nothing.  The original
\* version counts with a second query, .eq('is_valid', true) only, whose
\* count is null when it fails; offsetNum + clips.length < count compares a
\* null count as 0
ReadClips ==
    /\ api.status = 0
    /\ \E handler \in {"original", "schema"}, period \in {"24h", "7d", "all"},
          streamer \in {NoStreamerFilter} \cup StreamerIds, search \in {Null, <<"c", "h", "a", "s", "e">>},
          sort \in {"views", "recent"}, limitArg \in 1..MaxLimitArg,
          offsetNum \in 0..MaxOffsetArg, ok \in BOOLEAN, countOk \in BOOLEAN :
           LET limitNum == Min(limitArg, ApiMaxLimit)
               matching == { r \in clips : Matches(r, period, streamer, search, now) }
               asked    == [ApiIdle EXCEPT !.handler = handler, !.period = period,
                                           !.streamer = streamer, !.search = search,
                                           !.sort = sort, !.limitArg = limitArg]
           IN  /\ handler = "schema" => countOk
               /\ IF ~ok
                  THEN /\ countOk
                       /\ api' = [asked EXCEPT !.status = 500]
                  ELSE \E rows \in Ordered(matching, sort) :
                          LET data  == Range(rows, offsetNum, offsetNum + limitNum - 1)
                              count == IF handler = "schema"
                                       THEN FilteredCount(clips, period, streamer,
                                                          search, now)
                                       ELSE IF countOk
                                       THEN Cardinality({ r \in clips : r.is_valid })
                                       ELSE NullCount
                              below == offsetNum + Len(data)
                          IN  api' = [asked EXCEPT
                                         !.status = 200, !.data = data,
                                         !.total = count, !.limit = limitNum,
                                         !.offset = offsetNum,
                                         !.hasMore = IF count = NullCount
                                                     THEN below < 0
                                                     ELSE below < count]
    /\ UNCHANGED <<ids, callers, vrun, imp, peer, val, fetch, upstream, env, now, cache,
                   streamers,
                   clips, twitch_clips, collection_logs, run, scan>>

(***************************************************************************)
(* import-streamers: the import of streamer_ids.json into table streamers  *)
(***************************************************************************)
\* the import upserts 500 records at a time; scaled
ImportBatchSize == 2

\* the record of the file: { twitch_id, twitch_login, twitch_name, is_active: true },
\* the other columns at their defaults
FileRow ==
    [present |-> TRUE, twitch_login |-> "file", is_active |-> TRUE,
     last_clip_check |-> 0, last_bulk_scan |-> 0]

\* the answer of the last import: none yet
ImportIdle ==
    [status |-> 0, total_in_file |-> 0, records_prepared |-> 0, imported |-> 0,
     batch_errors |-> 0]

\* an upsert that updates the row on conflict
ImportRow_Overwrite(tbl, id) ==
    [tbl EXCEPT ![id].present = TRUE, ![id].twitch_login = "file",
                ![id].is_active = TRUE]

\* INSERT ... ON CONFLICT (twitch_id) DO NOTHING of one record
ImportRow(tbl, id) ==
    IF tbl[id].present THEN tbl ELSE [tbl EXCEPT ![id] = FileRow]

RECURSIVE ImportRows(_, _)
\* .upsert(batch, { onConflict: 'twitch_id', ignoreDuplicates: true })
ImportRows(tbl, batch) ==
    IF batch = <<>> THEN tbl
    ELSE ImportRows(ImportRow(tbl, Head(batch)), Tail(batch))

\* the number of iterations of for (i = 0; i < n; i += batchSize)
NumImportBatches(n) == (n + ImportBatchSize - 1) \div ImportBatchSize

RECURSIVE ImportBatches(_, _, _, _)
\* the batch loop from its b-th iteration on, over records.slice(i, i +
\* batchSize); oks[b] tells whether the store took the b-th batch, a refused
\* batch being logged and skipped
ImportBatches(tbl, records, oks, b) ==
    IF b > NumImportBatches(Len(records)) THEN tbl
    ELSE ImportBatches(IF oks[b]
                       THEN ImportRows(tbl,
                                SubSeq(records, (b - 1) * ImportBatchSize + 1,
                                       Min(b * ImportBatchSize, Len(records))))
                       ELSE tbl,
                       records, oks, b + 1)

\* imported += batch.length of the batches the store took
ImportedCount(records, oks) ==
    Len(records) -
    Cardinality({ k \in 1..Len(records) :
                    ~oks[((k - 1) \div ImportBatchSize) + 1] })

\* import-streamers, one invocation: method check, secret check, the file
\* read, the records of the entries with an id, the batches and the answer;
\* the operator sends the request while no scan is in flight.  Another
\* method than POST (405), a wrong secret (401) or a file that cannot be read
\* or parsed (500) stops the import before its first batch; an entry of the
\* file is the id of a streamer, or 0 when it has no id
ImportStreamers ==
    /\ run.pc \in {"idle", "done"}
    /\ \/ /\ \E refusal \in {405, 401, 500} :
                imp' = [ImportIdle EXCEPT !.status = refusal]
          /\ UNCHANGED streamers
       \/ \E file \in SUBSET (StreamerIds \cup {0}) :
             LET records == SortedSeq(file \ {0})
                 n       == NumImportBatches(Len(records))
             IN  \E oks \in [1..n -> BOOLEAN] :
                    /\ streamers' = ImportBatches(streamers, records, oks, 1)
                    /\ imp' = [status |-> 200,
                               total_in_file |-> Cardinality(file),
                               records_prepared |-> Len(records),
                               imported |-> ImportedCount(records, oks),
                               batch_errors |->
                                   Cardinality({ b \in 1..n : ~oks[b] })]
    /\ UNCHANGED <<ids, callers, api, vrun, peer, val, fetch, upstream, env, now, cache, clips,
                   twitch_clips, collection_logs, run, scan>>

HandlerVarsInit(e) ==
    /\ env = e
    /\ now = 0
    /\ cache = [h \in {"bulk", "collect"} |-> EmptyCache]
    /\ clips = {}
    /\ twitch_clips = {}
    /\ collection_logs = <<>>
    /\ run = RunIdle
    /\ scan = ScanStart
    /\ peer = RunIdle
    /\ imp = ImportIdle
    /\ vrun = ValidateIdle
    /\ api = ApiIdle
    /\ callers = NoCallers
    /\ ids = IdsIdle

NoEnv ==
    [handler |-> "none", cronSecret |-> FALSE, production |-> FALSE,
     credentials |-> TRUE, limit |-> 1, max_pages |-> 1, runs |-> 0,
     queryErrors |-> FALSE, history |-> {}]

\* a row of table streamers that an earlier import created and that was
\* deactivated since or not
StreamerRow(active) ==
    [present |-> TRUE, twitch_login |-> "stored", is_active |-> active,
     last_clip_check |-> 0, last_bulk_scan |-> 0]

vars == <<val, fetch, upstream, hvars>>

NoStreamers == [id \in StreamerIds |-> StreamerRow(FALSE)]

InitValidator ==
    /\ ValInit
    /\ fetch = FetchIdle
    /\ upstream = [clips |-> {}, cursors |-> {}, lifetimes |-> {}]
    /\ HandlerVarsInit(NoEnv)
    /\ streamers = NoStreamers
NextValidator == ApplyValidator
SpecValidator == InitValidator /\ [][NextValidator]_vars

\* one GTA V clip and one clip of another game are enough to tell the pages
\* of a single fetch apart
InitFetch ==
    /\ val = ValIdle
    /\ fetch = FetchIdle
    /\ upstream = [clips |-> {MkClip(3, 1), MkClip(4, 1)}, cursors |-> { <<"a">>, <<"b">> }, lifetimes |-> {}]
    /\ HandlerVarsInit(NoEnv)
    /\ streamers = NoStreamers
NextFetch == FetchCall \/ FetchPage \/ FetchLoopExit \/ FetchResult
SpecFetch == InitFetch /\ [][NextFetch]_vars

\* an upstream without clips: what the pages hold does not matter to the
\* paging of the streamers
NoClips == [clips |-> {}, cursors |-> {<<"a">>}, lifetimes |-> {1, 3}]
\* an upstream with clips that the validator accepts (1, 5), accepts for their
\* VOD title (2) or rejects (3), and clip 1 with two view counts; every
\* streamer's clips fit one page
ManyClips ==
    [clips |-> { c \in ClipUniverse : IsGTA(c) }, cursors |-> {}, lifetimes |-> {3}]
\* an upstream that returns clip 1 with one view count or another, or a clip of
\* another game
SameClip ==
    [clips |-> { c \in ClipUniverse : c.id \in {1, 4} }, cursors |-> {<<"a">>},
     lifetimes |-> {1, 3}]

Env(handler, credentials, limit, runs, queryErrors, history) ==
    [handler |-> handler, cronSecret |-> TRUE, production |-> TRUE,
     credentials |-> credentials, limit |-> limit, max_pages |-> 1, runs |-> runs,
     queryErrors |-> queryErrors, history |-> history]

Population(active) == [id \in StreamerIds |-> StreamerRow(id \in active)]

Handlers == {"bulk", "collect", "edge"}

\* the caller of bulk-scan walks any active population with a fixed page
\* size; or one run over two streamers and a rich upstream; or two runs over
\* one streamer whose clip is fetched again
Init ==
    /\ val = ValIdle
    /\ fetch = FetchIdle
    /\ \/ /\ upstream = NoClips
          /\ \E lim \in 1..2, cred \in BOOLEAN :
                HandlerVarsInit(Env("bulk", cred, lim, MaxRuns, TRUE, {}))
          /\ \E active \in SUBSET StreamerIds : streamers = Population(active)
       \/ /\ upstream = ManyClips
          /\ \E handler \in Handlers :
                HandlerVarsInit(Env(handler, TRUE, 2, 1, FALSE, {1, 2}))
          /\ streamers = Population({1, 2})
       \/ /\ upstream = SameClip
          /\ \E handler \in Handlers, cred \in BOOLEAN :
                /\ cred = FALSE => handler = "edge"
                /\ HandlerVarsInit(Env(handler, cred, 2, 2, TRUE, {2}))
          /\ streamers = Population({2})

Next ==
    \/ BulkInvoke \/ BulkLoadPage \/ BulkStreamerDone \/ BulkRespond
    \/ CollectInvoke \/ CollectLoadPage \/ CollectStreamerDone \/ CollectRespond
    \/ EdgeInvoke \/ EdgeGetTwitchToken \/ EdgeLoadConfig \/ EdgeStreamerStart
    \/ EdgeStreamerDone \/ EdgeInsertBatch \/ EdgeRespond
    \/ GetTwitchToken \/ FetchPage \/ FetchLoopExit
    \/ GetVODTitles \/ GetUserProfiles \/ SaveClipsEnter \/ UpsertBatch

Spec == Init /\ [][Next]_vars

(***************************************************************************)
(* Two collect invocations whose persistence phases overlap.  Each awaits  *)
(* its upsert batches one after the other; the store executes one upsert   *)
(* statement at a time, and may refuse any of them.                        *)
(***************************************************************************)
\* the second invocation enters saveClips
PeerSaveClipsEnter ==
    /\ peer.pc = "save"
    /\ peer' = SaveClipsEntered(peer)
    /\ UNCHANGED <<ids, callers, api, vrun, imp, val, fetch, upstream, env, now, cache, streamers, clips,
                   twitch_clips, collection_logs, run, scan>>

\* one upsert batch of the second invocation
PeerUpsertBatch ==
    /\ peer.pc = "upsert"
    /\ LET batch == Slice(peer.records, peer.i)
       IN  \E ok \in BOOLEAN :
              /\ ok => StoreAccepts(batch, ClipsKey, SaveClipsIgnoreDuplicates)
              /\ clips' = IF ok THEN Upsert(clips, batch, ClipsKey,
                                            SaveClipsIgnoreDuplicates) ELSE clips
              /\ peer' = Observed(BatchDone(peer, batch, ok, Len(batch)),
                                  clips, batch, ok, SaveClipsIgnoreDuplicates)
    /\ UNCHANGED <<ids, callers, api, vrun, imp, val, fetch, upstream, env, now, cache, streamers, twitch_clips,
                   collection_logs, run, scan>>

\* the answer of the second invocation
PeerRespond ==
    /\ peer.pc = "log"
    /\ peer' = [peer EXCEPT
                   !.pc = "done",
                   !.response = [NoResponse EXCEPT
                       !.status = 200, !.success = TRUE, !.body = "page",
                       !.streamers_checked = peer.streamersChecked,
                       !.clips_found = Len(peer.allClips),
                       !.clips_saved = peer.inserted]]
    /\ UNCHANGED <<ids, callers, api, vrun, imp, val, fetch, upstream, env, now, cache, streamers, clips,
                   twitch_clips, collection_logs, run, scan>>

\* the lists of at most n clips of S without a repeated id
DedupedLists(S, n) ==
    { cs \in SeqsUpTo(S, n) :
        cs # <<>> /\ \A j, k \in 1..Len(cs) : j # k => cs[j].id # cs[k].id }

\* a collect invocation about to call saveClips with the clips it accumulated
AtSaveClips(all) ==
    [RunIdle EXCEPT !.handler = "collect", !.pc = "save", !.exchange = "ok",
                    !.token = Token, !.batch = <<1, 2>>, !.idx = 3,
                    !.streamersChecked = 2,
                    !.allClips = all,
                    !.seenClipIds = { all[k].id : k \in 1..Len(all) },
                    !.vodTitles = [v \in VideoIds |-> VodTitleOf(v)]]

OverlapLen == 3

InitOverlap ==
    /\ val = ValIdle
    /\ fetch = FetchIdle
    /\ upstream = ManyClips
    /\ env = Env("collect", TRUE, 2, 2, FALSE, {1, 2})
    /\ now = 1
    /\ cache = [h \in {"bulk", "collect"} |-> EmptyCache]
    /\ streamers = Population({1, 2})
    /\ clips = {}
    /\ twitch_clips = {}
    /\ collection_logs = <<>>
    /\ scan = [ScanStart EXCEPT !.runs = 2]
    /\ imp = ImportIdle
    /\ vrun = ValidateIdle
    /\ api = ApiIdle
    /\ callers = NoCallers
    /\ ids = IdsIdle
    /\ \E a, b \in DedupedLists(upstream.clips, OverlapLen) :
          /\ run = AtSaveClips(a)
          /\ peer = AtSaveClips(b)

NextOverlap ==
    \/ SaveClipsEnter \/ UpsertBatch \/ CollectRespond
    \/ PeerSaveClipsEnter \/ PeerUpsertBatch \/ PeerRespond

SpecOverlap == InitOverlap /\ [][NextOverlap]_vars

(***************************************************************************)
(* Properties of fetchBroadcasterClips                                     *)

(***************************************************************************)
(* The periodic collector invoked again and again by its cron schedule     *)
(* over a population larger than one run's page, every streamer query and  *)
(* update being accepted by the store.                                     *)
(***************************************************************************)
InitCollector ==
    /\ val = ValIdle
    /\ fetch = FetchIdle
    \* an upstream with one clip that the validator accepts
    /\ upstream = [clips |-> {MkClip(5, 1)}, cursors |-> {}, lifetimes |-> {3}]
    /\ HandlerVarsInit(Env("collect", TRUE, CollectLimit, MaxRuns, FALSE, {}))
    /\ \E active \in SUBSET StreamerIds : streamers = Population(active)

\* a listing without cursor ends before the page budget is used up
NextCollector ==
    \/ CollectInvoke \/ GetTwitchToken \/ CollectLoadPage
    \/ FetchPage \/ CollectStreamerDone
    \/ GetVODTitles \/ GetUserProfiles \/ SaveClipsEnter \/ UpsertBatch
    \/ CollectRespond

\* the schedule keeps invoking and a started run keeps going
SpecCollector == InitCollector /\ [][NextCollector]_vars /\ WF_vars(NextCollector)


(***************************************************************************)
(* The operations that write to table streamers: bulk-scan or collect over *)
(* a table with missing, active and deactivated rows, and import-streamers *)
(* run before, between and after them.                                     *)
(***************************************************************************)
\* a table in which one streamer in three is active, one deactivated and one
\* not imported yet
MixedTable(shift) ==
    [id \in StreamerIds |->
        CASE (id + shift) % 3 = 0 ->
                 [present |-> FALSE, twitch_login |-> "none", is_active |-> FALSE,
                  last_clip_check |-> 0, last_bulk_scan |-> 0]
          [] (id + shift) % 3 = 1 -> StreamerRow(TRUE)
          [] OTHER                -> StreamerRow(FALSE)]

InitStreamers ==
    /\ val = ValIdle
    /\ fetch = FetchIdle
    \* an upstream whose one clip the validator rejects
    /\ upstream = [clips |-> {MkClip(3, 1)}, cursors |-> {<<"a">>}, lifetimes |-> {3}]
    /\ \E handler \in {"bulk", "collect"} :
          HandlerVarsInit(Env(handler, TRUE, 2, 1, FALSE, {}))
    /\ \E shift \in 0..2 : streamers = MixedTable(shift)

NextStreamers ==
    \/ BulkInvoke \/ BulkLoadPage \/ BulkStreamerDone \/ BulkRespond
    \/ CollectInvoke \/ CollectLoadPage \/ CollectStreamerDone \/ CollectRespond
    \/ GetTwitchToken \/ FetchPage \/ FetchLoopExit
    \/ GetVODTitles \/ GetUserProfiles \/ SaveClipsEnter
    \/ ImportStreamers

SpecStreamers == InitStreamers /\ [][NextStreamers]_vars


(***************************************************************************)
(* The two edge functions as their triggers call them: collect-clips run   *)
(* twice over one streamer, validate-clips between and after the runs.     *)
(***************************************************************************)
\* one run of bulk-scan or collect over two streamers whose clip listings
\* have several pages
InitPaged ==
    /\ val = ValIdle
    /\ fetch = FetchIdle
    /\ upstream = SameClip
    /\ \E handler \in {"bulk", "collect"} :
          HandlerVarsInit([Env(handler, TRUE, 2, 1, FALSE, {1, 2})
                             EXCEPT !.max_pages = 2])
    /\ streamers = Population({1, 2})

NextPaged ==
    \/ BulkInvoke \/ BulkLoadPage \/ BulkStreamerDone \/ BulkRespond
    \/ CollectInvoke \/ CollectLoadPage \/ CollectStreamerDone \/ CollectRespond
    \/ GetTwitchToken \/ FetchPage \/ FetchLoopExit
    \/ GetVODTitles \/ GetUserProfiles \/ SaveClipsEnter \/ UpsertBatch

SpecPaged == InitPaged /\ [][NextPaged]_vars

\* one bulk-scan run over two streamers, which the platform keeps executing
\* while the handler can take a step
InitBulkRun ==
    /\ val = ValIdle
    /\ fetch = FetchIdle
    \* listings of several pages, one clip with a VOD
    /\ upstream = [clips |-> {MkClip(1, 1), MkClip(2, 1)}, cursors |-> {<<"a">>},
                   lifetimes |-> {3}]
    /\ \E cred \in BOOLEAN, errors \in BOOLEAN :
          HandlerVarsInit(Env("bulk", cred, 2, 1, errors, {1, 2}))
    /\ streamers = Population({1, 2})

NextBulkRun ==
    \/ BulkInvoke \/ GetTwitchToken \/ BulkLoadPage \/ FetchPage \/ FetchLoopExit
    \/ BulkStreamerDone \/ GetVODTitles \/ GetUserProfiles \/ SaveClipsEnter
    \/ UpsertBatch \/ BulkRespond

SpecBulkRun == InitBulkRun /\ [][NextBulkRun]_vars /\ WF_vars(NextBulkRun)

\* the read API over every table of at most one row for each clip
InitRead ==
    /\ val = ValIdle
    /\ fetch = FetchIdle
    /\ upstream = NoClips
    /\ env = NoEnv
    /\ now = 0
    /\ cache = [h \in {"bulk", "collect"} |-> EmptyCache]
    /\ streamers = NoStreamers
    /\ clips \in ApiTables
    /\ twitch_clips = {}
    /\ collection_logs = <<>>
    /\ run = RunIdle
    /\ scan = ScanStart
    /\ peer = RunIdle
    /\ imp = ImportIdle
    /\ vrun = ValidateIdle
    /\ api = ApiIdle
    /\ callers = NoCallers
    /\ ids = IdsIdle

NextRead == ReadClips

SpecRead == InitRead /\ [][NextRead]_vars

InitEdge ==
    /\ val = ValIdle
    /\ fetch = FetchIdle
    /\ upstream = SameClip
    /\ \E cred \in BOOLEAN : HandlerVarsInit(Env("edge", cred, 2, 2, TRUE, {2}))
    /\ streamers = Population({2})

NextEdge ==
    \/ EdgeInvoke \/ EdgeGetTwitchToken \/ EdgeLoadConfig \/ EdgeStreamerStart
    \/ FetchPage \/ FetchLoopExit \/ EdgeStreamerDone \/ EdgeInsertBatch
    \/ EdgeRespond \/ ValidateClips

SpecEdge == InitEdge /\ [][NextEdge]_vars

\* three concurrent calls of getTwitchToken in the process of one handler
InitToken ==
    /\ val = ValIdle
    /\ fetch = FetchIdle
    /\ upstream = NoClips
    /\ \E h \in {"bulk", "collect"} :
          HandlerVarsInit(Env(h, TRUE, 1, 1, FALSE, {}))
    /\ streamers = NoStreamers
NextToken ==
    \/ \E c \in CallerIds : TokenCall(c)
    \/ \E c \in CallerIds : TokenAnswer(c)
    \/ ClockTick
SpecToken == InitToken /\ [][NextToken]_vars

\* requests to the streamer-ids endpoint of one warm process
InitIds ==
    /\ val = ValIdle
    /\ fetch = FetchIdle
    /\ upstream = NoClips
    /\ env = NoEnv
    /\ now = 1
    /\ cache = [h \in {"bulk", "collect"} |-> EmptyCache]
    /\ streamers = NoStreamers
    /\ clips = {}
    /\ twitch_clips = {}
    /\ collection_logs = <<>>
    /\ run = RunIdle
    /\ scan = ScanStart
    /\ peer = RunIdle
    /\ imp = ImportIdle
    /\ vrun = ValidateIdle
    /\ api = ApiIdle
    /\ callers = NoCallers
    /\ ids = IdsIdle
NextIds == StreamerIdsHandler \/ TimePasses
SpecIds == InitIds /\ [][NextIds]_vars

(***************************************************************************)
FetchOver == fetch.pc \in {"returned", "threw"}

\* C2 (as claimed): a call never issues more than maxPages page requests,
\* whatever the upstream answers.
C2_AtMostMaxPagesRequests == fetch.requests <= fetch.maxPages

\* C2 (amended): a call issues at most maxPages page requests that are not
\* answered with 429, also when the cursor never empties; each 429 answer adds
\* one request, so the total is at most maxPages plus the number of 429 answers.
C2_PageBudget ==
    /\ fetch.requests - fetch.n429 <= fetch.maxPages
    /\ fetch.okPages <= fetch.maxPages
    /\ fetch.pc = "loop" => fetch.page = fetch.okPages

C2_Witness ==
    /\ fetch.pc = "returned"
    /\ fetch.cursor # Null
    /\ fetch.maxPages = MaxPagesArg
    /\ fetch.okPages = fetch.maxPages
    /\ fetch.n429 > 0
    /\ fetch.requests > fetch.maxPages

\* C3: a 429 answer changes neither the page counter, the cursor nor the
\* accumulated clips and leaves the loop running, and the request that follows
\* a 429 carries the same 'after' cursor as the request that was refused; pages
\* fetched successfully can still number maxPages.
C3_RetrySamePage ==
    [][ /\ (fetch'.requests = fetch.requests + 1 /\ fetch'.lastStatus = 429)
           => /\ fetch'.pc = "loop"
              /\ fetch'.page = fetch.page
              /\ fetch'.page < fetch'.maxPages
              /\ fetch'.cursor = fetch.cursor
              /\ fetch'.clips = fetch.clips
              /\ fetch'.okPages = fetch.okPages
        /\ (fetch.lastStatus = 429 /\ fetch'.requests = fetch.requests + 1)
           => fetch'.lastSent = fetch.lastSent ]_vars

C3_Witness ==
    /\ fetch.pc = "returned"
    /\ fetch.n429 > 0
    /\ fetch.lastStatus = 200
    /\ fetch.lastSent # Null
    /\ fetch.maxPages = MaxPagesArg
    /\ fetch.okPages = fetch.maxPages

(***************************************************************************)
(* Properties of the validator                                             *)
(***************************************************************************)
\* t contains a keyword of the configured set, case-insensitively
HasKeyword(t) ==
    \E k \in 1..Len(CHASERP_TERMS) : Includes(ToLowerCase(OrEmpty(t)), CHASERP_TERMS[k])

\* C5: the validator returns true exactly when the clip title or the VOD title
\* contains a keyword of the configured set as a case-insensitive substring.
C5_AcceptIffATitleHasKeyword ==
    val.pc = "done" =>
        (val.result <=> (HasKeyword(val.clipTitle) \/ HasKeyword(val.vodTitle)))

(***************************************************************************)
(* Properties of the handlers                                              *)
(***************************************************************************)
SaveClipsHandler == run.handler \in {"bulk", "collect"}

\* the run went through its persistence phase
Persisted ==
    \/ run.pc \in {"respond", "log"}
    \/ run.pc = "done" /\ run.response.body = "page"

\* the run answered after processing a page
Answered == run.pc = "done" /\ run.response.body = "page"

IdsOf(cs) == { cs[k].id : k \in 1..Len(cs) }

UniqueIds(cs) == \A j, k \in 1..Len(cs) : j # k => cs[j].id # cs[k].id

IsPrefix(s, t) == Len(s) <= Len(t) /\ SubSeq(t, 1, Len(s)) = s

\* the first clip of cs that has the given id
FirstWithId(cs, id) ==
    cs[CHOOSE k \in 1..Len(cs) :
          cs[k].id = id /\ \A j \in 1..(k - 1) : cs[j].id # id]

\* the number of the batch that holds the k-th record
BatchOf(k) == ((k - 1) \div BatchSize) + 1

\* C1: when the caller of bulk-scan, passing each returned next offset, is told
\* completed = true, every active streamer has been selected for processing
\* exactly once; no streamer is ever selected twice and no inactive one at all.
C1_ScanCoversEachOnce ==
    env.handler = "bulk" =>
        /\ \A id \in StreamerIds :
              scan.processed[id] <= (IF streamers[id].is_active THEN 1 ELSE 0)
        /\ scan.completed =>
              \A id \in StreamerIds : streamers[id].is_active => scan.processed[id] = 1

\* C4 (as claimed): at the end of a run, a fetched clip has been written to the
\* store if and only if the validator accepts it.
C4_WrittenIffAccepted ==
    Answered =>
        \A k \in 1..Len(run.allClips) :
            run.allClips[k].id \in run.written
                <=> IsValidClip(run.allClips[k], run.vodTitles)

\* C4 (amended): in bulk-scan and collect a clip is written only if the
\* validator accepts it, every accepted clip is submitted in exactly one batch
\* and is written exactly when the store accepts that batch; the edge function
\* submits every fetched clip, accepted by the validator or not.
C4_WrittenOnlyIfAccepted ==
    /\ SaveClipsHandler =>
          /\ run.written \subseteq IdsOf(run.allClips)
          /\ \A k \in 1..Len(run.allClips) :
                run.allClips[k].id \in run.written
                    => IsValidClip(run.allClips[k], run.vodTitles)
          /\ \A id \in run.written : \E row \in clips : row.clip_id = id
          /\ Persisted =>
                /\ \A k \in 1..Len(run.allClips) :
                      IsValidClip(run.allClips[k], run.vodTitles)
                          <=> Cardinality({ j \in 1..Len(run.records) :
                                  run.records[j].clip_id = run.allClips[k].id }) = 1
                /\ \A j \in 1..Len(run.records) :
                      run.records[j].clip_id \in run.written <=> run.batchOk[BatchOf(j)]
    /\ (run.handler = "edge" /\ Answered) =>
          /\ Len(run.records) = Len(run.allClips)
          /\ \A j \in 1..Len(run.records) :
                /\ run.records[j].clip_id = run.allClips[j].id
                /\ run.batchOk[BatchOf(j)]
                      => \E row \in twitch_clips : row.clip_id = run.records[j].clip_id

C4_Witness ==
    /\ SaveClipsHandler
    /\ Answered
    /\ \E k \in 1..Len(run.allClips) : ~IsValidClip(run.allClips[k], run.vodTitles)
    /\ \E k \in 1..Len(run.allClips) :
          /\ IsValidClip(run.allClips[k], run.vodTitles)
          /\ run.allClips[k].id \in run.written
    /\ \E k \in 1..Len(run.allClips) :
          /\ IsValidClip(run.allClips[k], run.vodTitles)
          /\ run.allClips[k].id \notin run.written

\* C6: the accumulated list never holds a clip id twice; when a streamer's
\* clips are merged, the entries already accumulated stay where they are, every
\* fetched id is present afterwards, and a new id is represented by its first
\* occurrence in the fetched list; the store holds one row for every id written.
C6_DedupKeepsFirst ==
    [][ SaveClipsHandler' =>
          /\ UniqueIds(run'.allClips)
          /\ UniqueIds(run.allClips)
          /\ \A id \in run'.written :
                Cardinality({ row \in clips' : row.clip_id = id }) = 1
          /\ (run.pc = "fetching" /\ fetch.pc = "returned" /\ run'.idx = run.idx + 1)
                => /\ IsPrefix(run.allClips, run'.allClips)
                   /\ IdsOf(run'.allClips) = IdsOf(run.allClips) \cup IdsOf(fetch.clips)
                   /\ \A k \in (Len(run.allClips) + 1)..Len(run'.allClips) :
                         run'.allClips[k] = FirstWithId(fetch.clips, run'.allClips[k].id)
      ]_vars

C6_Witness ==
    /\ run.handler = "bulk"
    /\ Answered
    /\ run.streamersWithClips = 2
    /\ Len(run.allClips) = 1
    /\ run.written = {run.allClips[1].id}
    /\ Cardinality(clips) = 1

UniqueKeys(tbl, key) == \A r, q \in tbl : SameKey(r, q, key) => r = q

\* C7: the clip tables never hold two rows with the same (platform, clip id),
\* respectively the same clip id, however often a clip is persisted; a batch
\* written in update mode leaves each of its records as the one row of its key
\* and touches no other row, a batch written in ignore mode leaves every row
\* already stored as it was and adds a row only for a key not yet stored.
C7_OneRowPerKey ==
    [][ /\ UniqueKeys(clips, ClipsKey) /\ UniqueKeys(clips', ClipsKey)
        /\ UniqueKeys(twitch_clips, EdgeKey) /\ UniqueKeys(twitch_clips', EdgeKey)
        /\ LET batch == Slice(run.records, run.i)
               taken == Len(run'.batchOk) = Len(run.batchOk) + 1
                           /\ run'.batchOk[Len(run'.batchOk)]
           IN  /\ (SaveClipsHandler /\ taken) =>
                      /\ \A k \in 1..Len(batch) : batch[k] \in clips'
                      /\ \A q \in clips :
                            q \in clips' \/ \E k \in 1..Len(batch) : SameKey(batch[k], q, ClipsKey)
                      /\ \A q \in clips' :
                            q \in clips \/ \E k \in 1..Len(batch) : batch[k] = q
               /\ (run.handler = "edge" /\ taken) =>
                      /\ twitch_clips \subseteq twitch_clips'
                      /\ \A k \in 1..Len(batch) :
                            \E q \in twitch_clips' : SameKey(batch[k], q, EdgeKey)
                      /\ \A q \in twitch_clips' \ twitch_clips :
                            \E k \in 1..Len(batch) : batch[k] = q
               /\ ~taken => (clips' = clips /\ twitch_clips' = twitch_clips)
      ]_vars

C7_Witness ==
    /\ run.pc = "done"
    /\ run.conflicts > 0
    /\ scan.runs = 2
    /\ clips # {} \/ twitch_clips # {}

\* C8: once the token exchange of a run has failed, no clip request is issued
\* and nothing is written in that run, and the run ends with a failure response.
C8_ExchangeFailureIsFatal ==
    run.exchange \in {"http_error", "network_error"} =>
        /\ run.pc # "fetching"
        /\ fetch.pc = "idle"
        /\ run.written = {}
        /\ run.pc = "done" => (run.response.status = 500 /\ ~run.response.success)

\* C9: when the fetch of a streamer is over, failed or not, the loop moves to
\* the next streamer (whose fetch starts) or, after the last one, to the
\* metadata phase; a failure neither ends the run nor touches the clips
\* accumulated so far, and these reach persistence unchanged.
C9_StreamerFailureIsolated ==
    [][ SaveClipsHandler =>
          /\ (run.pc = "fetching" /\ fetch.pc \in {"returned", "threw"} /\ run' # run)
                => /\ run'.pc \in {"fetching", "vod"}
                   /\ run'.idx = run.idx + 1
                   /\ run'.pc = "fetching" => (run'.idx <= Len(run.batch) /\ fetch'.pc = "loop")
                   /\ run'.pc = "vod" => run'.idx = Len(run.batch) + 1
                   /\ IsPrefix(run.allClips, run'.allClips)
                   /\ fetch.pc = "threw" => run'.allClips = run.allClips
          /\ (run.pc \in {"vod", "profiles", "save", "upsert", "respond", "log"}
                /\ run'.handler = run.handler /\ run'.pc # "token"
                /\ run'.response.status # 500)
                => (run'.allClips = run.allClips /\ run'.idx = Len(run.batch) + 1)
      ]_vars

C9_Witness ==
    /\ SaveClipsHandler
    /\ Answered
    /\ Len(run.batch) = 2
    /\ run.streamersChecked = 1
    /\ run.written # {}

\* C10: when a run has answered, its inserted count equals the number of rows
\* the store wrote in the batches it accepted; the records of a rejected batch
\* are not counted.
C10_CountEqualsRowsWritten == Answered => run.inserted = run.rowsWritten

\* C11: a metadata lookup that fails never ends the run and never drops a clip:
\* from the VOD-title lookup the run goes to the profile lookup and from there
\* to persistence, with the accumulated clips unchanged, a title or an image
\* that was not obtained being null.
C11_MetadataIsBestEffort ==
    [][ (SaveClipsHandler /\ run.pc \in {"vod", "profiles"} /\ run' # run) =>
          /\ run'.pc = (IF run.pc = "vod" THEN "profiles" ELSE "save")
          /\ run'.response.status # 500
          /\ run'.allClips = run.allClips
          /\ \A v \in VideoIds : run'.vodTitles[v] \in {Null, VodTitleOf(v)}
          /\ \A b \in StreamerIds : run'.profiles[b] \in {Null, ProfileImage}
      ]_vars

\* C12: when the query for the page of active streamers comes back with an
\* error, the run answers with a failure, not with a success or a completed scan.
C12_StoreFailureIsFatal ==
    (SaveClipsHandler /\ run.pageError) =>
        /\ run.response.status = 500
        /\ ~run.response.success
        /\ ~run.response.completed

\* C13: when a collect run has returned, the collection_logs row it created
\* with status 'running' has status 'completed' or 'failed'.
C13_LogRowFinalized ==
    (run.handler = "collect" /\ run.pc = "done" /\ run.logId # 0) =>
        collection_logs[run.logId].status \in {"completed", "failed"}

BothFinished == run.pc = "done" /\ peer.pc = "done"

HasRow(id) == \E row \in clips : row.clip_id = id

\* C14 (as claimed): under every interleaving of two collection runs the store
\* holds at most one row per (platform, clip id), and once both runs have
\* finished every clip accepted by either of them is in the store.
C14_OverlapKeepsEveryAcceptedClip ==
    /\ UniqueKeys(clips, ClipsKey)
    /\ BothFinished =>
          /\ \A k \in 1..Len(run.allClips) :
                IsValidClip(run.allClips[k], run.vodTitles) => HasRow(run.allClips[k].id)
          /\ \A k \in 1..Len(peer.allClips) :
                IsValidClip(peer.allClips[k], peer.vodTitles) => HasRow(peer.allClips[k].id)

\* C14 (amended): under every interleaving of two collection runs the store
\* holds at most one row per (platform, clip id); once both runs have finished,
\* every accepted clip that either run submitted in a batch the store accepted
\* is in the store, and every row is a record one of the runs submitted in an
\* accepted batch.
C14_OverlapIsIdempotent ==
    /\ UniqueKeys(clips, ClipsKey)
    /\ BothFinished =>
          /\ \A j \in 1..Len(run.records) :
                run.batchOk[BatchOf(j)] => HasRow(run.records[j].clip_id)
          /\ \A j \in 1..Len(peer.records) :
                peer.batchOk[BatchOf(j)] => HasRow(peer.records[j].clip_id)
          /\ \A row \in clips :
                \/ \E j \in 1..Len(run.records) :
                      run.records[j] = row /\ run.batchOk[BatchOf(j)]
                \/ \E j \in 1..Len(peer.records) :
                      peer.records[j] = row /\ peer.batchOk[BatchOf(j)]

C14_Witness ==
    /\ BothFinished
    /\ run.conflicts > 0
    /\ peer.conflicts > 0
    /\ \E row \in clips : row.clip_id = 1
    /\ Cardinality(clips) >= 3

\* the three-streamer scenario: three active streamers and a page size of 2
ThreeStreamerScenario ==
    /\ run.handler = "bulk"
    /\ Len(ActiveById(streamers)) = 3
    /\ run.limitNum = 2

\* C15: with three active streamers A, B, C ordered by id and page size 2, the
\* call at offset 0 processes exactly A and B and reports next offset 2 with
\* completed = false; the call at offset 2 processes exactly C and reports
\* offset 3 with completed = true.
C15_ThreeStreamerScenario ==
    (ThreeStreamerScenario /\ run.pc = "done" /\ run.response.status = 200) =>
        LET active == ActiveById(streamers)
        IN  /\ run.offsetNum = 0 =>
                  /\ run.batch = SubSeq(active, 1, 2)
                  /\ run.response.nextOffset = 2
                  /\ run.response.processed_so_far = 2
                  /\ ~run.response.completed
            /\ run.offsetNum = 2 =>
                  /\ run.batch = SubSeq(active, 3, 3)
                  /\ run.response.processed_so_far = 3
                  /\ run.response.nextOffset = NoNext
                  /\ run.response.completed

\* bulk-scan answered after processing a non-empty page
BulkAnswered == run.handler = "bulk" /\ Answered

\* C16 as stated: for every bulk-scan call that processes a non-empty page the
\* reported next offset equals offset + pageSize, also when the page returned
\* by the store is shorter than pageSize.
C16_NextIsOffsetPlusPageSize ==
    BulkAnswered =>
        /\ run.response.processed_so_far = run.offsetNum + run.limitNum
        /\ ~run.response.completed =>
               run.response.nextOffset = run.offsetNum + run.limitNum

\* C16 amended: for every bulk-scan call that processes a non-empty page the
\* reported next offset equals offset + the number of streamers in the page
\* the store returned; that is offset + pageSize when the page is full and
\* less when the page is shorter than pageSize.
C16_NextIsOffsetPlusPageLength ==
    BulkAnswered =>
        /\ run.response.offset = run.offsetNum
        /\ Len(run.batch) \in 1..run.limitNum
        /\ run.response.processed_so_far = run.offsetNum + Len(run.batch)
        /\ ~run.response.completed =>
               run.response.nextOffset = run.offsetNum + Len(run.batch)
        /\ Len(run.batch) = run.limitNum =>
               run.response.processed_so_far = run.offsetNum + run.limitNum
        /\ Len(run.batch) < run.limitNum =>
               run.response.processed_so_far < run.offsetNum + run.limitNum

\* a page shorter than the page size was processed and answered
C16_Witness ==
    /\ BulkAnswered
    /\ Len(run.batch) < run.limitNum
    /\ run.response.processed_so_far = run.offsetNum + Len(run.batch)

\* C17: for every bulk-scan call that processes a non-empty page, completed is
\* true exactly when the next offset is >= the total number of active
\* streamers, and the next continuation is present exactly when completed is
\* false.
C17_CompletedIffNextReachesTotal ==
    BulkAnswered =>
        /\ run.response.completed <=>
               run.response.processed_so_far >= Len(ActiveById(streamers))
        /\ (run.response.nextOffset # NoNext) <=> ~run.response.completed

\* the page of active streamers at the offset of the run is empty
PageIsEmpty ==
    Range(ActiveById(streamers), run.offsetNum, run.offsetNum + run.limitNum - 1) = <<>>

\* C18: a bulk-scan call that finds the page of active streamers at its offset
\* empty reports completed = true and does no further work: no clip fetch, no
\* metadata lookup, no update of any streamer and no write to the clip store.
C18_EmptyPageMeansDone ==
    [][ /\ (run.handler = "bulk" /\ run.pc = "page" /\ PageIsEmpty) =>
              /\ run'.pc = "done"
              /\ run'.response.status = 200
              /\ run'.response.success
              /\ run'.response.completed
              /\ run'.response.nextOffset = NoNext
              /\ run'.allClips = <<>> /\ run'.streamersChecked = 0
              /\ run'.vodTitles = run.vodTitles /\ run'.profiles = run.profiles
              /\ run'.records = <<>> /\ run'.written = {} /\ run'.rowsWritten = 0
              /\ UNCHANGED <<fetch, streamers, clips, twitch_clips>>
        /\ (run.handler = "bulk" /\ run.pc = "done" /\ run.response.body = "empty") =>
              UNCHANGED <<run, fetch, streamers, clips, twitch_clips>> ]_vars

\* a call found no active streamer at its offset and answered
C18_Witness ==
    /\ run.handler = "bulk" /\ run.pc = "done"
    /\ PageIsEmpty /\ ~run.pageError
    /\ run.response.body = "empty" /\ run.response.completed

\* a credential is cached for the handler of the run and the time is before
\* its expiry less the safety margin
CachedAndFresh ==
    /\ cache[run.handler].accessToken # Null
    /\ now < cache[run.handler].expiresAt - TokenMargin

\* C19: getTwitchToken returns the cached credential without contacting the
\* exchange endpoint if and only if a credential is cached and now < expiry -
\* safety margin; otherwise it performs one exchange and caches the new
\* credential with the expiry derived from its declared lifetime.  So no call
\* returns a cached credential at or after expiry - margin.
C19_TokenCacheFreshness ==
    [][ (run.handler \in {"bulk", "collect"} /\ run.pc = "token" /\ run' # run) =>
           /\ CachedAndFresh =>
                 /\ run'.exchange = "none"
                 /\ run'.token = cache[run.handler].accessToken
                 /\ cache' = cache
           /\ ~CachedAndFresh =>
                 /\ run'.exchange \in {"ok", "http_error", "network_error"}
                 /\ run'.exchange = "ok" =>
                        /\ run'.token = Token
                        /\ cache'[run.handler].accessToken = Token
                        /\ \E life \in upstream.lifetimes :
                               /\ cache'[run.handler].expiresAt = now + life
                               /\ cache'[run.handler].tokenExpiry =
                                      now + life - TokenMargin
                        /\ \A h \in DOMAIN cache :
                               h # run.handler => cache'[h] = cache[h] ]_vars

\* a later invocation got the cached credential back while it was fresh
C19_Witness ==
    /\ run.handler \in {"bulk", "collect"}
    /\ run.pc = "page"
    /\ run.exchange = "none" /\ run.token = Token
    /\ now > 1
    /\ now < cache[run.handler].expiresAt - TokenMargin

\* the loop of a run is about to finish its current streamer
StreamerStep ==
    /\ SaveClipsHandler
    /\ run.pc = "fetching"
    /\ fetch.pc \in {"returned", "threw"}
    /\ run' # run

\* the update of the current streamer took effect, or the store refused it
LastCheckSet ==
    LET id == run.batch[run.idx]
    IN  \/ /\ streamers'[id].last_clip_check = now
           /\ \A o \in StreamerIds \ {id} : streamers'[o] = streamers[o]
        \/ env.queryErrors /\ fetch.pc = "returned" /\ streamers' = streamers

AllActiveSelected ==
    \A id \in StreamerIds : streamers[id].is_active => scan.processed[id] > 0

C22_LedgerIsBestEffort ==
    [][ /\ (env.handler = "collect" /\ run.pc \in {"idle", "done"} /\ run' # run
             /\ run'.response.status # 401) =>
              /\ run'.pc = "token"
              /\ run'.response.status # 500
              /\ \/ collection_logs' = collection_logs /\ run'.logId = 0
                 \/ /\ collection_logs' =
                           Append(collection_logs, [status |-> "running"])
                    /\ run'.logId = Len(collection_logs')
        /\ (run.handler = "collect" /\ run.pc = "log") =>
              /\ \A j \in 1..Len(run.records) :
                    run.batchOk[BatchOf(j)] => HasRow(run.records[j].clip_id)
              /\ run' # run =>
                    /\ run'.pc = "done"
                    /\ run'.response.status = 200
                    /\ run'.response.success
                    /\ run'.response.clips_saved = run.inserted
                    /\ clips' = clips ]_vars

\* a collect run whose log row could not be created persisted a clip and
\* answered with success
C22_Witness ==
    /\ run.handler = "collect"
    /\ run.pc = "done"
    /\ run.logId = 0
    /\ run.written # {}
    /\ run.response.status = 200 /\ run.response.success

\* C23: when a clip whose key is already stored is persisted again with a
\* different view count, saveClips of bulk-scan and collect (update on
\* conflict) leaves the stored record carrying the newly fetched view count,
\* insertClips of the edge function (ignore duplicates) leaves the stored
\* record unchanged, and in both modes the key keeps exactly one record.
C23_ConflictModes ==
    [][ LET batch == Slice(run.records, run.i)
            taken == /\ run.pc = "upsert"
                     /\ Len(run'.batchOk) = Len(run.batchOk) + 1
                     /\ run'.batchOk[Len(run'.batchOk)]
        IN  taken =>
              \A k \in 1..Len(batch) :
                 /\ SaveClipsHandler =>
                       \A q \in clips :
                          (SameKey(q, batch[k], ClipsKey)
                              /\ q.view_count # batch[k].view_count) =>
                             /\ { r \in clips' : SameKey(r, q, ClipsKey) } = {batch[k]}
                             /\ q \notin clips'
                 /\ run.handler = "edge" =>
                       \A q \in twitch_clips :
                          (SameKey(q, batch[k], EdgeKey)
                              /\ q.view_count # batch[k].view_count) =>
                             { r \in twitch_clips' : SameKey(r, q, EdgeKey) } = {q}
      ]_vars

\* a run of bulk-scan or collect persisted a clip again with another view
\* count and the stored record now carries the count of this run
C23_Witness ==
    /\ SaveClipsHandler
    /\ run.refreshed > 0
    /\ \E j \in 1..Len(run.records) :
          /\ j <= run.i
          /\ run.batchOk[BatchOf(j)]
          /\ run.records[j] \in clips

\* C24: no operation (bulk-scan, collect, a re-run of import-streamers) deletes
\* a streamer row or changes a field of an existing streamer other than its
\* last-checked timestamps; a re-import never reactivates a deactivated
\* streamer and never overwrites an existing row.
C24_StreamerRowsStable ==
    [][ \A id \in StreamerIds :
           streamers[id].present =>
              /\ streamers'[id] =
                    [streamers[id] EXCEPT
                        !.last_clip_check = streamers'[id].last_clip_check,
                        !.last_bulk_scan = streamers'[id].last_bulk_scan]
              /\ imp' # imp => streamers'[id] = streamers[id]
              /\ run.handler = "collect" =>
                    streamers'[id].last_bulk_scan = streamers[id].last_bulk_scan
      ]_vars

\* after a scan set a timestamp, a re-import whose batches the store took
\* left a deactivated row and a row with a timestamp as they were
C24_Witness ==
    /\ imp.status = 200
    /\ imp.imported = Cardinality(StreamerIds)
    /\ \E id \in StreamerIds :
          /\ streamers[id].present /\ ~streamers[id].is_active
          /\ streamers[id].twitch_login = "stored"
    /\ \E id \in StreamerIds :
          /\ streamers[id].last_clip_check > 0
          /\ streamers[id].twitch_login = "stored"
    /\ \E id \in StreamerIds : streamers[id].twitch_login = "file"

\* the seven variants that the README documents
DocumentedTerms ==
    << <<"c", "h", "a", "s", "e", "r", "p">>,
       <<"c", "h", "a", "s", "e", " ", "r", "p">>,
       <<"c", "h", "a", "s", "e", " ", "r", "o", "l", "e", "p", "l", "a", "y">>,
       <<"c", "h", "a", "s", "e", " ", "r", "o", "l", "e", " ", "p", "l", "a", "y">>,
       <<"c", "h", "a", "s", "e", "r", "p", "g">>,
       <<"c", "h", "a", "s", "e", "-", "r", "p">>,
       <<"#", "c", "h", "a", "s", "e", "r", "p">> >>

HasDocumentedTerm(t) ==
    \E k \in 1..Len(DocumentedTerms) :
        Includes(ToLowerCase(OrEmpty(t)), DocumentedTerms[k])

\* a title holds a documented variant
DocumentedTitle == HasDocumentedTerm(val.clipTitle) \/ HasDocumentedTerm(val.vodTitle)

\* C25: the validator accepts a clip whenever its clip title or its VOD title
\* contains one of the seven documented variants, case-insensitively, and
\* does not accept it otherwise.
C25_DocumentedKeywordSet ==
    val.pc = "done" => (val.result <=> DocumentedTitle)

\* C26: a POST request to the collect-clips and to the validate-clips edge
\* function, the method documented for the endpoints and sent by the pg_cron
\* jobs, starts the run rather than being rejected.
C26_PostStartsTheRun ==
    /\ (run.handler = "edge" /\ run.method = "POST") => run.response.status # 405
    /\ vrun.method = "POST" => vrun.status # 405

RecordsBeyond ==
    FilteredCount(clips, api.period, api.streamer, api.search, now)
        > api.offset + Len(api.data)

\* C27: in every successful answer of the read API, hasMore is true exactly
\* when rows matching the request's filters exist beyond offset + the number
\* of rows returned, total is the number of rows matching those filters, and
\* at most min(limit, 500) rows are returned
C27_ReadPagination ==
    api.status = 200 =>
        /\ api.hasMore <=> RecordsBeyond
        /\ api.total = FilteredCount(clips, api.period, api.streamer, api.search, now)
        /\ Len(api.data) <= Min(api.limitArg, ApiMaxLimit)

\* the same of the schema-aware version alone
SchemaAwarePagination ==
    (api.status = 200 /\ api.handler = "schema") =>
        /\ api.hasMore <=> RecordsBeyond
        /\ api.total = FilteredCount(clips, api.period, api.streamer, api.search, now)
        /\ Len(api.data) <= Min(api.limitArg, ApiMaxLimit)

\* a non-success answer other than 429
OtherFailure(status) == status \notin {200, 429, NETWORK_ERROR}

\* a step in which fetchBroadcasterClips sends a page request that is
\* answered with such a status
PageRequestFailed ==
    /\ fetch.kind \in {"bulk", "collect"}
    /\ fetch.pc = "loop"
    /\ fetch'.requests = fetch.requests + 1
    /\ OtherFailure(fetch'.lastStatus)

\* a step in which a handler takes the result of a call that ended so
FailedFetchTaken ==
    /\ run.handler \in {"bulk", "collect"}
    /\ run.pc = "fetching"
    /\ fetch.pc = "returned"
    /\ OtherFailure(fetch.lastStatus)
    /\ run' # run

\* C28: a page request of fetchBroadcasterClips answered with a non-success
\* status other than 429 ends the call for that streamer at once, without
\* another request, returning exactly the clips of the pages fetched before;
\* the handler takes these clips and goes on with the next streamer, for
\* which a fresh call with the full page budget starts
C28_FailureEndsOneStreamerOnly ==
    [][ /\ PageRequestFailed =>
              /\ fetch'.pc = "returned"
              /\ fetch'.clips = fetch.clips
              /\ fetch'.page = fetch.page
        /\ (fetch.pc = "returned" /\ fetch' # fetch) => fetch'.requests = 0
        /\ FailedFetchTaken =>
              /\ run'.idx = run.idx + 1
              /\ run'.allClips = Dedup(run.allClips, run.seenClipIds, fetch.clips).allClips
              /\ run'.streamersChecked = run.streamersChecked + 1
              /\ run'.pc # "done"
              /\ run.idx < Len(run.batch) =>
                    /\ run'.pc = "fetching"
                    /\ fetch' = FetchEntry(run.handler,
                                           IF run.handler = "bulk" THEN run.maxPagesNum
                                           ELSE CollectMaxPages) ]_vars

\* a call that ended on such an answer after a page with clips, with
\* another streamer of the page still to come
C28_Witness ==
    /\ run.handler \in {"bulk", "collect"}
    /\ run.pc = "fetching"
    /\ run.idx < Len(run.batch)
    /\ fetch.pc = "returned"
    /\ OtherFailure(fetch.lastStatus)
    /\ fetch.okPages >= 1
    /\ fetch.clips # <<>>

\* C29: in the periodic collector a page request of fetchBroadcasterClips
\* answered with 429 leaves the call running on the same page: the page
\* counter, the cursor and the accumulated clips are unchanged, and the
\* streamer's remaining pages are not abandoned
C29_CollectorRetriesOn429 ==
    [][ (/\ fetch.kind = "collect"
         /\ fetch.pc = "loop"
         /\ fetch'.requests = fetch.requests + 1
         /\ fetch'.lastStatus = 429)
        => /\ fetch'.pc = "loop"
           /\ fetch'.page = fetch.page
           /\ fetch'.cursor = fetch.cursor
           /\ fetch'.clips = fetch.clips ]_vars

\* the phases of a bulk-scan run in the order of the handler's code
PhaseRank(pc) ==
    CASE pc = "idle" -> 0
      [] pc = "token" -> 1
      [] pc = "page" -> 2
      [] pc = "fetching" -> 3
      [] pc = "vod" -> 4
      [] pc = "profiles" -> 5
      [] pc = "save" -> 6
      [] pc = "upsert" -> 7
      [] pc = "respond" -> 8
      [] pc = "done" -> 9

BulkRunning == run.handler = "bulk" /\ run.pc \notin {"idle", "done"}

\* the number of accumulated clips that pass the validator with the VOD
\* titles held by the run
NumAccepted(r) ==
    Cardinality({ k \in 1..Len(r.allClips) : IsValidClip(r.allClips[k], r.vodTitles) })

\* one step of a bulk-scan run respects the order of the phases
BulkPhaseOrder ==
    /\ BulkRunning =>
          /\ PhaseRank(run'.pc) >= PhaseRank(run.pc)
          /\ run'.pc = "fetching" => run.pc \in {"page", "fetching"}
          /\ run'.pc = "vod" => run.pc \in {"fetching", "vod"}
          /\ run'.pc = "profiles" => run.pc \in {"vod", "profiles"}
          /\ run'.pc = "save" => run.pc \in {"profiles", "save"}
          /\ run'.pc = "upsert" => run.pc \in {"save", "upsert"}
          /\ run'.pc = "respond" => run.pc \in {"save", "upsert", "respond"}
          \* every streamer of the page is processed before the lookups
          /\ (run.pc = "fetching" /\ run'.pc # "fetching") =>
                run'.pc = "vod" /\ run.idx = Len(run.batch)
          \* the titles are resolved in the metadata phase only
          /\ run.pc # "vod" => run'.vodTitles = run.vodTitles
          /\ run.pc # "profiles" => run'.profiles = run.profiles
          \* validation uses these titles
          /\ (run.pc = "save" /\ run' # run) => run'.total_valid = NumAccepted(run)
          \* no answer before the end
          /\ run.response = NoResponse
          /\ run'.pc = "done" <=> run'.response.status \in {200, 500}
    \* rows are written in the persist phase only
    /\ (env.handler = "bulk" /\ clips' # clips) =>
          /\ run.pc = "upsert"
          /\ run.idx = Len(run.batch) + 1
    \* an answered run takes no further step: only a new request follows
    /\ (run.handler = "bulk" /\ run.pc = "done" /\ run' # run) =>
          /\ scan'.runs = scan.runs + 1
          /\ run'.pc \in {"token", "done"}

PageRequested ==
    /\ fetch.kind \in {"bulk", "collect"}
    /\ fetch.pc = "loop"
    /\ fetch'.requests = fetch.requests + 1

\* such a step whose request is answered with a page that has a data array
PageTaken ==
    /\ PageRequested
    /\ fetch'.lastStatus = 200
    /\ fetch'.pc # "threw"

\* C31: every page request of fetchBroadcasterClips carries the cursor held
\* from the previous page (none for the first), and the request that follows
\* a page is made with that page's cursor and counts as the next page; the
\* call returns right after a page exactly when that page carries no cursor
\* or fewer items than a full page, and the GTA V items of that page, like
\* those of every page, are appended to the result
C31_PaginationStops ==
    [][ /\ PageRequested =>
              /\ fetch'.lastSent = fetch.cursor
              /\ fetch.requests = 0 => fetch.cursor = Null
              /\ fetch.lastStatus = 200 =>
                    fetch.cursor # Null /\ Len(fetch.lastItems) >= FirstPerPage
        /\ PageTaken =>
              /\ fetch'.pc = "returned" <=>
                    (fetch'.cursor = Null \/ Len(fetch'.lastItems) < FirstPerPage)
              /\ fetch'.pc = "loop" => fetch'.page = fetch.page + 1
              /\ fetch'.clips = fetch.clips \o SelectSeq(fetch'.lastItems, IsGTA) ]_vars

\* a call that returned on a short second page whose clip is in the result
C31_Witness ==
    /\ fetch.kind \in {"bulk", "collect"}
    /\ fetch.pc = "returned"
    /\ fetch.lastStatus = 200
    /\ fetch.okPages >= 2
    /\ fetch.cursor # Null
    /\ fetch.lastSent # Null
    /\ Len(fetch.lastItems) = 1
    /\ IsGTA(fetch.lastItems[1])
    /\ fetch.clips[Len(fetch.clips)] = fetch.lastItems[1]

\* the items of the latest page that belong to GTA V
KeptOfLastPage(f) ==
    { k \in 1..Len(f.lastItems) : f.lastItems[k].game_id = GTA_V_GAME_ID }

\* C32: every clip that fetchBroadcasterClips holds or returns is a GTA V
\* clip, so that only GTA V clips are accumulated by the handler and only
\* their rows reach table clips; a page adds as many clips as it has GTA V
\* items, while the decision to go on is taken on the length of the page as
\* it arrived: a full page with a cursor continues the loop and uses up one
\* page of the budget however many of its items were dropped
C32_GameFilter ==
    /\ [](env.handler \in {"bulk", "collect"} =>
            /\ \A k \in 1..Len(fetch.clips) : fetch.clips[k].game_id = GTA_V_GAME_ID
            /\ \A k \in 1..Len(run.allClips) :
                  run.allClips[k].game_id = GTA_V_GAME_ID
            /\ \A r \in clips : GameOf(r.clip_id) = GTA_V_GAME_ID)
    /\ [][ PageTaken =>
              /\ Len(fetch'.clips) = Len(fetch.clips) + Cardinality(KeptOfLastPage(fetch'))
              /\ (fetch'.cursor # Null /\ Len(fetch'.lastItems) = FirstPerPage) =>
                    fetch'.pc = "loop" /\ fetch'.page = fetch.page + 1
              /\ Len(fetch'.lastItems) < FirstPerPage => fetch'.pc = "returned" ]_vars

\* a full page of which an item of another game was dropped, after which
\* the loop goes on with one page of the budget used
C32_Witness ==
    /\ fetch.kind \in {"bulk", "collect"}
    /\ fetch.pc = "loop"
    /\ fetch.page = 1
    /\ fetch.lastStatus = 200
    /\ Len(fetch.lastItems) = FirstPerPage
    /\ Cardinality(KeptOfLastPage(fetch)) = 1
    /\ Len(fetch.clips) = 1

RECURSIVE Flatten(_)
\* the batches one after the other
Flatten(batches) ==
    IF batches = <<>> THEN <<>> ELSE Head(batches) \o Flatten(Tail(batches))

\* the batch loop of the run is over
BatchesOver == run.pc \in {"log", "respond", "done"}

\* C33: the batches handed to the store are consecutive slices of the
\* record list in its order: together they are the records up to the loop
\* index and, once the loop is over, the whole list, so that every record
\* is submitted in exactly one batch; no batch is empty or longer than the
\* batch size and all but the last are full; each batch is one store call,
\* and an empty record list causes none
C33_BatchPartition ==
    run.handler \in {"bulk", "collect", "edge"} =>
        /\ Len(run.batchOk) = Len(run.submitted)
        /\ \A b \in 1..Len(run.submitted) :
              /\ Len(run.submitted[b]) \in 1..BatchSize
              /\ b < Len(run.submitted) => Len(run.submitted[b]) = BatchSize
        /\ Flatten(run.submitted)
              = SubSeq(run.records, 1, Min(BatchSize * Len(run.submitted),
                                           Len(run.records)))
        /\ (BatchesOver /\ run.response.status # 500) =>
              Flatten(run.submitted) = run.records
        /\ run.records = <<>> => run.submitted = <<>>

\* a list of three records submitted as a full batch and a last batch of one
C33_Witness ==
    /\ BatchesOver
    /\ Len(run.records) = BatchSize + 1
    /\ Len(run.submitted) = 2
    /\ Len(run.submitted[2]) = 1

\* the cached pair is the one that a single answered exchange assigned
CachedPairFromOneExchange ==
    CallerCache # EmptyCache =>
        \E k \in CallerIds :
            /\ callers[k].exchange \in {"ok", "http_error"}
            /\ IF callers[k].exchange = "ok"
               THEN /\ CallerCache.accessToken = Token
                    /\ ~CallerCache.expiryNaN
                    /\ CallerCache.tokenExpiry =
                           callers[k].at + callers[k].life - TokenMargin
               ELSE /\ CallerCache.accessToken = Null
                    /\ CallerCache.expiryNaN

\* a call that returned holds a token that an exchange answered before
EveryCallerGetsCredential ==
    \A k \in CallerIds :
        callers[k].pc = "returned" =>
            /\ callers[k].got = Token
            /\ \E j \in CallerIds :
                  callers[j].exchange = "ok" /\ callers[j].at <= callers[k].at

\* two calls of the same process each ran an exchange of their own
RedundantExchanges ==
    \E j, k \in CallerIds :
        j # k /\ callers[j].exchange = "ok" /\ callers[k].exchange = "ok"

\* C34: under any interleaving of concurrent getTwitchToken calls the cached
\* accessToken and tokenExpiry come from one and the same exchange, and every
\* call that returned received a credential that a completed exchange produced.
C34_TokenCacheUnderConcurrency ==
    CachedPairFromOneExchange /\ EveryCallerGetsCredential

\* C35: a validate-clips call handles every clip it took from the view: the
\* update of a clip carries is_valid = (its HEAD request was answered 2xx, a
\* request error counting as not 2xx) and the time of the call as
\* last_validated_at, a clip whose update failed is left as it was without
\* keeping the other clips from being updated, "validated" is the number of
\* clips whose update succeeded and "invalidated" the number of those found
\* invalid, hence never more.
C35_Revalidation ==
    [][ (vrun'.calls = vrun.calls + 1 /\ vrun'.status = 200) =>
          /\ vrun'.taken \subseteq twitch_clips
          /\ vrun'.checked = { r.clip_id : r \in vrun'.taken }
          /\ \A r \in vrun'.taken :
                IF r.clip_id \in vrun'.updated
                THEN [r EXCEPT !.is_valid = (r.clip_id \in vrun'.head2xx),
                               !.last_validated_at = now'] \in twitch_clips'
                ELSE r \in twitch_clips'
          /\ vrun'.validated = Cardinality(vrun'.updated)
          /\ vrun'.invalidated = Cardinality(vrun'.updated \ vrun'.head2xx)
          /\ vrun'.invalidated <= vrun'.validated ]_vars

\* a call that took two clips, failed to update the first and marked the
\* other one invalid
C35_Witness ==
    /\ vrun.status = 200
    /\ vrun.checked \ vrun.updated # {}
    /\ vrun.invalidated = 1
    /\ \E r \in twitch_clips :
          /\ r.clip_id \in vrun.updated
          /\ ~r.is_valid
          /\ r.last_validated_at = now

\* C36: no step of the collect-clips edge function changes or removes a row
\* that table twitch_clips already holds, so a row that validate-clips marked
\* is_valid = false keeps that verdict and its last_validated_at through
\* every later collect-clips run that fetches the same clip again.
C36_VerdictsSurviveCollection ==
    [][ vrun' = vrun => \A r \in twitch_clips : r \in twitch_clips' ]_vars

\* the second collect-clips run ended after it submitted a clip that the one
\* validate-clips call before that run had marked invalid
C36_Witness ==
    /\ run.handler = "edge"
    /\ run.pc = "done"
    /\ scan.runs = 2
    /\ vrun.calls = 1
    /\ \E r \in twitch_clips :
          /\ ~r.is_valid
          /\ r.last_validated_at > 0
          /\ r.last_validated_at < now
          /\ \E b \in 1..Len(run.submitted) :
                /\ run.batchOk[b]
                /\ \E k \in 1..Len(run.submitted[b]) :
                      run.submitted[b][k].clip_id = r.clip_id

\* C37: in every successful bulk-scan answer of a processed page,
\* clips_saved <= chaserp_clips_valid <= gta_clips_found and
\* streamers_with_clips <= streamers_checked <= streamers_in_batch <= limit,
\* and streamers_checked is streamers_in_batch less the streamers whose
\* processing raised an error.
C37_CountersConsistent ==
    (run.handler = "bulk" /\ run.pc = "done" /\ run.response.status = 200
        /\ run.response.body = "page") =>
        /\ run.response.clips_saved <= run.response.clips_valid
        /\ run.response.clips_valid <= run.response.clips_found
        /\ run.response.streamers_with_clips <= run.response.streamers_checked
        /\ run.response.streamers_checked <= run.response.streamers_in_batch
        /\ run.response.streamers_in_batch <= run.limitNum
        /\ run.response.streamers_checked =
              run.response.streamers_in_batch - run.streamerErrors

\* an answer after one of two streamers failed and the other one had clips
\* of which some were no ChaseRP clips and some were saved
C37_Witness ==
    /\ run.handler = "bulk"
    /\ run.pc = "done"
    /\ run.response.status = 200
    /\ run.response.body = "page"
    /\ run.streamerErrors = 1
    /\ run.response.streamers_in_batch = 2
    /\ run.response.streamers_with_clips = 1
    /\ run.response.clips_saved >= 1
    /\ run.response.clips_valid < run.response.clips_found

\* the request of the run in progress came with another Authorization header
\* than 'Bearer <CRON_SECRET>' while CRON_SECRET is set in production
Refused ==
    /\ run.handler \in {"bulk", "collect"}
    /\ env.cronSecret
    /\ env.production
    /\ ~run.headerMatches

\* C38: with CRON_SECRET configured in production, a bulk-scan or collect
\* request whose Authorization header differs from 'Bearer <CRON_SECRET>' is
\* answered 401 at once and has no side effect: no ledger row, no token
\* exchange, no upstream fetch, no streamer update and no clip write.
C38_TriggerAuthorization ==
    /\ [](Refused =>
            /\ run.pc = "done"
            /\ run.response.status = 401
            /\ run.exchange = "none"
            /\ run.logId = 0
            /\ run.submitted = <<>>
            /\ fetch = FetchIdle)
    /\ [][ Refused' =>
            /\ collection_logs' = collection_logs
            /\ cache' = cache
            /\ fetch' = fetch
            /\ streamers' = streamers
            /\ clips' = clips
            /\ twitch_clips' = twitch_clips ]_vars

\* a refused request that followed a run which had filled the tables
C38_Witness ==
    /\ Refused
    /\ run.response.status = 401
    /\ scan.runs = 2
    /\ clips # {}

\* the step is a request to the streamer-ids endpoint
IdsRequest == now' = now

\* C39: the streamer-ids endpoint answers cached: true only when the cache
\* was filled less than one hour before the request, then with the cached
\* ids and without touching cache or timestamp; otherwise it reloads the
\* file, sets cache and timestamp together and answers cached: false with the
\* loaded ids; a reload that fails answers with an error and leaves cache
\* and timestamp as they were.
C39_StreamerIdCacheTTL ==
    [][ IdsRequest =>
          /\ ids'.status \in {200, 500}
          /\ (ids'.status = 200 /\ ids'.cached) <=>
                (ids.loaded /\ now - ids.filledAt < CACHE_DURATION)
          /\ (ids'.status = 200 /\ ids'.cached) =>
                /\ ids'.data = ids.cachedStreamerIds
                /\ ids'.cachedStreamerIds = ids.cachedStreamerIds
                /\ ids'.cacheTimestamp = ids.cacheTimestamp
                /\ ids'.filledAt = ids.filledAt
          /\ (ids'.status = 200 /\ ~ids'.cached) =>
                /\ ids'.loaded
                /\ ids'.cachedStreamerIds = ids'.data
                /\ ids'.cacheTimestamp = now
                /\ ids'.filledAt = now
          /\ ids'.status = 500 =>
                /\ ~ids'.success
                /\ ids'.loaded = ids.loaded
                /\ ids'.cachedStreamerIds = ids.cachedStreamerIds
                /\ ids'.cacheTimestamp = ids.cacheTimestamp
                /\ ids'.filledAt = ids.filledAt ]_vars

\* a reload that failed exactly one hour after the cache was filled
C39_Witness ==
    /\ ids.status = 500
    /\ ids.loaded
    /\ ids.cachedStreamerIds # <<>>
    /\ now - ids.filledAt = CACHE_DURATION

====
